---- MODULE Spec2Model ----
(***************************************************************************)
(* Trust & Access-Control Engine of the Khedma API: the ban ledger         *)
(* (api/src/services/banService.ts), the write-only ban gate               *)
(* (api/src/routes/index.ts, api/src/middleware/banCheck.ts), and the      *)
(* subscription lifecycle with the provider tier                           *)
(* (api/src/services/providerService.ts).                                  *)
(*                                                                         *)
(* The service is request-parallel: every request occupies a slot and      *)
(* advances one storage call (one await) at a time, so the steps of        *)
(* different requests interleave.  Time is counted in days.  user_bans     *)
(* and subscriptions are sequences of rows in the order of created_at, a   *)
(* row id is its index; cancellation_log is a bag of rows.  A row carries  *)
(* the columns the service reads back; the reason text of a ban is kept    *)
(* as the number it names (reasonN).                                       *)
(***************************************************************************)
EXTENDS Integers, Sequences, FiniteSets, Bags, TLC

\* ---- policy constants ----
CANCEL_THRESHOLD == 3
CANCEL_WINDOW_DAYS == 30
TEMP_BAN_DAYS == 7
PERM_BAN_AFTER_TEMP_BANS == 3

\* ---- bounds of the model ----
MaxTicks == 2
MaxCancels == 5
MaxSubs == 2

Users == {"u1", "u2"}
NoUser == "none"
InvalidCred == "invalid"
Slots == {1, 2}
\* booking ids passed to logCancellation by a direct caller
Bookings == {1}
\* ids of the rows of the bookings table
BookingIds == 1 .. MaxCancels
Null == -1

\* the clock advances by the periods of the policy
BanTickSteps == {TEMP_BAN_DAYS, CANCEL_WINDOW_DAYS}

VARIABLES now, ticks, faults, cancellation_log, user_bans, subscriptions, profiles,
          favorites, bookings, reviews, req

vars == <<now, ticks, faults, cancellation_log, user_bans, subscriptions, profiles,
          favorites, bookings, reviews, req>>

clock == <<now, ticks, faults>>
banStore == <<cancellation_log, user_bans>>
subStore == <<subscriptions, profiles>>
favStore == <<favorites>>
bookStore == <<bookings, reviews>>

\* an empty request slot
Idle ==
  [pc |-> "idle", op |-> "none", method |-> "none", cred |-> NoUser,
   user |-> NoUser, booking |-> 0, count |-> 0, temps |-> 0,
   http |-> 0, banned |-> FALSE, banType |-> "none", expires |-> Null,
   reasonN |-> 0, provider |-> NoUser, plan |-> "none", sub |-> 0,
   substatus |-> "none", tier |-> "none", shown |-> {},
   logged |-> {}, room |-> <<>>, joined |-> FALSE, emitted |-> "none", newStatus |-> "none"]

\* a storage call succeeds; it may also fail when the store is faulty
Outcomes == IF faults THEN {TRUE, FALSE} ELSE {TRUE}

\* variant: GET is treated as a write method
writeMethodsWithGet == {"POST", "PUT", "PATCH", "DELETE", "GET"}

writeMethods == {"POST", "PUT", "PATCH", "DELETE"}
Methods == {"GET"} \cup writeMethods

\* ---- Ban Ledger: queries over the stored rows ----

\* variant: a temporary ban still counts at its expiry instant (gte instead of gt)
ActiveBanRowsInclusive(u, t) ==
  {i \in DOMAIN user_bans :
     /\ user_bans[i].user_id = u
     /\ \/ user_bans[i].ban_type = "permanent"
        \/ (user_bans[i].expires_at # Null /\ user_bans[i].expires_at >= t)}

\* variant: the expiry filter is dropped from the query
ActiveBanRowsAnyExpiry(u, t) ==
  {i \in DOMAIN user_bans : user_bans[i].user_id = u}

\* rows matched by .eq('user_id', u).or('ban_type.eq.permanent,expires_at.gt.<t>')
ActiveBanRows(u, t) ==
  {i \in DOMAIN user_bans :
     /\ user_bans[i].user_id = u
     /\ \/ user_bans[i].ban_type = "permanent"
        \/ (user_bans[i].expires_at # Null /\ user_bans[i].expires_at > t)}

\* variant: ascending order, the row created first
Oldest(S) == CHOOSE i \in S : \A j \in S : i <= j

\* .order('created_at', { ascending: false }).limit(1): the row created last
MostRecent(S) == CHOOSE i \in S : \A j \in S : j <= i

NotBanned == [banned |-> FALSE, type |-> "none", reasonN |-> 0, expires_at |-> Null]

\* variant: a failed lookup is reported as a ban
checkBanFailClosed(u, t, ok) ==
  IF ~ok
  THEN [banned |-> TRUE, type |-> "temporary", reasonN |-> 0, expires_at |-> Null]
  ELSE IF ActiveBanRows(u, t) = {}
  THEN NotBanned
  ELSE LET ban == user_bans[MostRecent(ActiveBanRows(u, t))]
       IN [banned |-> TRUE, type |-> ban.ban_type, reasonN |-> ban.reasonN,
           expires_at |-> ban.expires_at]

\* checkBan(userId): the most recent active ban; not banned on a lookup error
checkBan(u, t, ok) ==
  IF ~ok \/ ActiveBanRows(u, t) = {}
  THEN NotBanned
  ELSE LET ban == user_bans[MostRecent(ActiveBanRows(u, t))]
       IN [banned |-> TRUE, type |-> ban.ban_type, reasonN |-> ban.reasonN,
           expires_at |-> ban.expires_at]

\* getActiveBan of the first revision: walk the user's rows from the newest,
\* return the first that is permanent or temporary and not yet over (0: none)
getActiveBan(u, t) ==
  LET S == {i \in DOMAIN user_bans :
              /\ user_bans[i].user_id = u
              /\ \/ user_bans[i].ban_type = "permanent"
                 \/ (user_bans[i].ban_type = "temporary"
                     /\ user_bans[i].expires_at # Null /\ user_bans[i].expires_at > t)}
  IN IF S = {} THEN 0 ELSE MostRecent(S)

\* SQL helper is_user_banned(_user_id)
is_user_banned(u, t) ==
  \E i \in DOMAIN user_bans :
     /\ user_bans[i].user_id = u
     /\ \/ user_bans[i].ban_type = "permanent"
        \/ (user_bans[i].ban_type = "temporary"
            /\ user_bans[i].expires_at # Null /\ user_bans[i].expires_at > t)

RECURSIVE CountRows(_, _)
CountRows(B, S) ==
  IF S = {} THEN 0
  ELSE LET x == CHOOSE y \in S : TRUE
       IN CopiesIn(x, B) + CountRows(B, S \ {x})

\* variant: the window filter is dropped, every record of the user counts
getCancellationCountAllTime(u, t, ok) ==
  IF ~ok THEN 0
  ELSE CountRows(cancellation_log,
                 {c \in BagToSet(cancellation_log) : c.user_id = u})

\* variant: a failed count is treated as a reached threshold
getCancellationCountFailsClosed(u, t, ok) ==
  IF ~ok THEN CANCEL_THRESHOLD
  ELSE CountRows(cancellation_log,
                 {c \in BagToSet(cancellation_log) :
                    c.user_id = u /\ c.cancelled_at >= t - CANCEL_WINDOW_DAYS})

\* .eq('user_id', u).gte('cancelled_at', now - 30 days), count exact; 0 on error
getCancellationCount(u, t, ok) ==
  IF ~ok THEN 0
  ELSE CountRows(cancellation_log,
                 {c \in BagToSet(cancellation_log) :
                    c.user_id = u /\ c.cancelled_at >= t - CANCEL_WINDOW_DAYS})

\* variant: a failed count of the temporary bans is treated as a reached limit
existingTempBansFailsClosed(u, ok) ==
  IF ~ok THEN PERM_BAN_AFTER_TEMP_BANS - 1
  ELSE Cardinality({i \in DOMAIN user_bans :
                      user_bans[i].user_id = u /\ user_bans[i].ban_type = "temporary"})

\* variant: only the temporary bans that are still running are counted
existingTempBansLive(u, ok) ==
  IF ~ok THEN 0
  ELSE Cardinality({i \in DOMAIN user_bans :
                      /\ user_bans[i].user_id = u /\ user_bans[i].ban_type = "temporary"
                      /\ user_bans[i].expires_at > now})

\* .eq('user_id', u).eq('ban_type', 'temporary'), count exact; (count || 0)
existingTempBans(u, ok) ==
  IF ~ok THEN 0
  ELSE Cardinality({i \in DOMAIN user_bans :
                      user_bans[i].user_id = u /\ user_bans[i].ban_type = "temporary"})

\* ---- requests of the ban ledger and of the gate ----

Canceller == "u1"

LoggedBy(u) ==
  CountRows(cancellation_log, {c \in BagToSet(cancellation_log) : c.user_id = u})

InFlightCancels ==
  Cardinality({r \in Slots : req[r].op = "cancel"
                             /\ req[r].pc \in {"gate", "auth", "bk_fetch", "bk_update",
                                                "log_insert"}})

CancelBudget ==
  /\ LoggedBy(Canceller) + InFlightCancels < MaxCancels
  /\ Len(user_bans) < MaxCancels

\* requests are interchangeable: a new one takes the first free slot
FirstFree(r) ==
  /\ req[r].pc = "idle"
  /\ \A q \in Slots : q < r => req[q].pc # "idle"

\* banService.logCancellation(userId, bookingId, reason) is called
RecordCancellation(r) ==
  /\ FirstFree(r)
  /\ CancelBudget
  /\ \E b \in Bookings :
       req' = [req EXCEPT ![r] =
                 [Idle EXCEPT !.pc = "log_insert", !.op = "cancel", !.method = "POST",
                              !.cred = Canceller, !.user = Canceller, !.booking = b]]
  /\ UNCHANGED <<bookStore, favStore, clock, banStore, subStore>>

cancellableStatuses == {"pending", "confirmed", "in_progress"}

\* bookings are interchangeable: a request names the first booking that is
\* still open or the booking closed last
CancelTargets ==
  LET open == {b \in BookingIds : bookings[b].status \in cancellableStatuses}
      closed == BookingIds \ open
  IN {b \in open : \A c \in open : b <= c} \cup {b \in closed : \A c \in closed : c <= b}

\* POST /api/bookings/:id/cancel arrives at the router
ArriveCancel(r) ==
  /\ req[r].pc = "idle"
  /\ CancelBudget
  /\ \E c \in {Canceller, InvalidCred}, b \in CancelTargets :
       req' = [req EXCEPT ![r] =
                 [Idle EXCEPT !.pc = "gate", !.op = "cancel", !.method = "POST",
                              !.cred = c, !.booking = b]]
  /\ UNCHANGED <<bookStore, favStore, clock, banStore, subStore>>

\* a request for any other protected route arrives at the router
ArriveOther(r) ==
  /\ req[r].pc = "idle"
  /\ \E m \in Methods, c \in Users \cup {InvalidCred} :
       req' = [req EXCEPT ![r] =
                 [Idle EXCEPT !.pc = "gate", !.op = "other", !.method = m, !.cred = c]]
  /\ UNCHANGED <<bookStore, favStore, clock, banStore, subStore>>

\* banCheckMiddleware: next() without req.user, 403 for a banned req.user
banCheckMiddleware(q, ok) ==
  IF q.user = NoUser
  THEN [q EXCEPT !.pc = "auth"]
  ELSE LET result == checkBan(q.user, now, ok)
       IN IF result.banned
          THEN [q EXCEPT !.pc = "done", !.http = 403, !.banned = TRUE,
                         !.banType = result.type, !.expires = result.expires_at,
                         !.reasonN = result.reasonN]
          ELSE [q EXCEPT !.pc = "auth",
                         !.logged = IF ok THEN @ ELSE @ \cup {"checkBan"}]

\* banCheckWriteOnly(req, res, next): the ban check for write methods only
WriteOnlyGate(q, ok) ==
  IF q.method \in writeMethods
  THEN banCheckMiddleware(q, ok)
  ELSE [q EXCEPT !.pc = "auth"]

\* router.use('/<route>', banCheckWriteOnly, <router>): before the route's own middleware
banCheckWriteOnly(r) ==
  /\ req[r].pc = "gate"
  /\ \E ok \in Outcomes :
       req' = [req EXCEPT ![r] = WriteOnlyGate(req[r], ok)]
  /\ UNCHANGED <<bookStore, favStore, clock, banStore, subStore>>

\* authMiddleware: resolves the bearer credential into req.user, or 401
authMiddleware(r) ==
  /\ req[r].pc = "auth"
  /\ req' = [req EXCEPT ![r] =
               IF req[r].cred = InvalidCred
               THEN [req[r] EXCEPT !.pc = "done", !.http = 401]
               ELSE [req[r] EXCEPT !.user = req[r].cred,
                                   !.pc = IF req[r].op = "cancel" THEN "bk_fetch"
                                          ELSE "handler"]]
  /\ UNCHANGED <<bookStore, favStore, clock, banStore, subStore>>

\* the route handler of any other protected route
Handler(r) ==
  /\ req[r].pc = "handler"
  /\ req' = [req EXCEPT ![r] = [req[r] EXCEPT !.pc = "done", !.http = 200]]
  /\ UNCHANGED <<bookStore, favStore, clock, banStore, subStore>>

\* POST /:id/cancel steps 1-3: fetch the booking (404), the caller must be
\* its client or its provider (403), its status must be cancellable (400)
BkFetch(r) ==
  /\ req[r].pc = "bk_fetch"
  /\ \E ok \in Outcomes :
       LET booking == bookings[req[r].booking]
       IN req' = [req EXCEPT ![r] =
                    IF ~ok
                    THEN [req[r] EXCEPT !.pc = "done", !.http = 404]
                    ELSE IF req[r].user \notin {booking.client_id, booking.provider_id}
                    THEN [req[r] EXCEPT !.pc = "done", !.http = 403]
                    ELSE IF booking.status \notin cancellableStatuses
                    THEN [req[r] EXCEPT !.pc = "done", !.http = 400]
                    ELSE [req[r] EXCEPT !.pc = "bk_update"]]
  /\ UNCHANGED <<bookStore, favStore, clock, banStore, subStore>>

\* POST /:id/cancel step 4: update({ status: 'cancelled' }).eq('id', bookingId),
\* 500 on error; then logCancellation is called
BkUpdate(r) ==
  /\ req[r].pc = "bk_update"
  /\ \E ok \in Outcomes :
       IF ok
       THEN /\ bookings' = [bookings EXCEPT ![req[r].booking].status = "cancelled"]
            /\ req' = [req EXCEPT ![r] = [req[r] EXCEPT !.pc = "log_insert"]]
       ELSE /\ bookings' = bookings
            /\ req' = [req EXCEPT ![r] = [req[r] EXCEPT !.pc = "done", !.http = 500]]
  /\ UNCHANGED <<reviews, favStore, clock, banStore, subStore>>

\* variant: a failed insert of the cancellation record ends the request
LogInsertFatal(r) ==
  /\ req[r].pc = "log_insert"
  /\ \E ok \in Outcomes :
       IF ok
       THEN /\ cancellation_log' =
                 cancellation_log (+)
                   SetToBag({[user_id |-> req[r].user, booking_id |-> req[r].booking,
                              cancelled_at |-> now]})
            /\ req' = [req EXCEPT ![r] = [req[r] EXCEPT !.pc = "count"]]
       ELSE /\ cancellation_log' = cancellation_log
            /\ req' = [req EXCEPT ![r] =
                         [req[r] EXCEPT !.pc = "done", !.http = 500,
                                        !.logged = @ \cup {"logCancellation"}]]
  /\ UNCHANGED <<bookStore, favStore, clock, user_bans, subStore>>

\* logCancellation step 1: insert the cancellation record (best effort)
LogInsert(r) ==
  /\ req[r].pc = "log_insert"
  /\ \E ok \in Outcomes :
       /\ cancellation_log' =
         IF ok
         THEN cancellation_log (+)
                SetToBag({[user_id |-> req[r].user, booking_id |-> req[r].booking,
                           cancelled_at |-> now]})
         ELSE cancellation_log
       /\ req' = [req EXCEPT ![r] =
                    [req[r] EXCEPT !.pc = "count",
                                   !.logged = IF ok THEN @ ELSE @ \cup {"logCancellation"}]]
  /\ UNCHANGED <<bookStore, favStore, clock, user_bans, subStore>>

\* variant: only the call that first reaches the threshold escalates
CountCancellationsFirstReach(r) ==
  /\ req[r].pc = "count"
  /\ \E ok \in Outcomes :
       LET cancellationCount == getCancellationCount(req[r].user, now, ok)
       IN req' = [req EXCEPT ![r] =
                    IF cancellationCount = CANCEL_THRESHOLD
                    THEN [req[r] EXCEPT !.pc = "temps", !.count = cancellationCount]
                    ELSE [req[r] EXCEPT !.pc = "done", !.http = 200, !.banned = FALSE,
                                        !.count = cancellationCount,
                                        !.logged = IF ok THEN @
                                                   ELSE @ \cup {"getCancellationCount"}]]
  /\ UNCHANGED <<bookStore, favStore, clock, banStore, subStore>>

\* logCancellation steps 2-3: count the window, warn below the threshold
CountCancellations(r) ==
  /\ req[r].pc = "count"
  /\ \E ok \in Outcomes :
       LET cancellationCount == getCancellationCount(req[r].user, now, ok)
       IN req' = [req EXCEPT ![r] =
                    IF cancellationCount >= CANCEL_THRESHOLD
                    THEN [req[r] EXCEPT !.pc = "temps", !.count = cancellationCount]
                    ELSE [req[r] EXCEPT !.pc = "done", !.http = 200, !.banned = FALSE,
                                        !.count = cancellationCount,
                                        !.logged = IF ok THEN @
                                                   ELSE @ \cup {"getCancellationCount"}]]
  /\ UNCHANGED <<bookStore, favStore, clock, banStore, subStore>>

\* handleBanThreshold: count the temporary bans issued so far
CountTempBans(r) ==
  /\ req[r].pc = "temps"
  /\ \E ok \in Outcomes :
       req' = [req EXCEPT ![r] =
                 [req[r] EXCEPT !.pc = "ban_insert",
                                !.temps = existingTempBans(req[r].user, ok)]]
  /\ UNCHANGED <<bookStore, favStore, clock, banStore, subStore>>

\* variant: the permanent ban comes one temporary ban early
NewBanEarlyEscalation(u, strikeCount, totalTempBans, t) ==
  IF totalTempBans >= PERM_BAN_AFTER_TEMP_BANS - 1
  THEN [user_id |-> u, ban_type |-> "permanent", reasonN |-> totalTempBans,
        expires_at |-> Null]
  ELSE [user_id |-> u, ban_type |-> "temporary", reasonN |-> strikeCount,
        expires_at |-> t + TEMP_BAN_DAYS]

\* variant: escalation only above the limit (> instead of >=)
NewBanLateEscalation(u, strikeCount, totalTempBans, t) ==
  IF totalTempBans > PERM_BAN_AFTER_TEMP_BANS
  THEN [user_id |-> u, ban_type |-> "permanent", reasonN |-> totalTempBans,
        expires_at |-> Null]
  ELSE [user_id |-> u, ban_type |-> "temporary", reasonN |-> strikeCount,
        expires_at |-> t + TEMP_BAN_DAYS]

\* variant: the temporary ban lasts for the counting window instead of 7 days
NewBanWindowLong(u, strikeCount, totalTempBans, t) ==
  IF totalTempBans >= PERM_BAN_AFTER_TEMP_BANS
  THEN [user_id |-> u, ban_type |-> "permanent", reasonN |-> totalTempBans,
        expires_at |-> Null]
  ELSE [user_id |-> u, ban_type |-> "temporary", reasonN |-> strikeCount,
        expires_at |-> t + CANCEL_WINDOW_DAYS]

\* the row handleBanThreshold inserts, from the counts it read
NewBan(u, strikeCount, totalTempBans, t) ==
  IF totalTempBans >= PERM_BAN_AFTER_TEMP_BANS
  THEN [user_id |-> u, ban_type |-> "permanent", reasonN |-> totalTempBans,
        expires_at |-> Null]
  ELSE [user_id |-> u, ban_type |-> "temporary", reasonN |-> strikeCount,
        expires_at |-> t + TEMP_BAN_DAYS]

\* variant: the new ban replaces the user's most recent ban row when there is one
InsertBanReplaces(r) ==
  /\ req[r].pc = "ban_insert"
  /\ \E ok \in Outcomes :
       LET row == NewBan(req[r].user, req[r].count, req[r].temps + 1, now)
           own == {i \in DOMAIN user_bans : user_bans[i].user_id = req[r].user}
       IN IF ok
          THEN /\ user_bans' = IF own = {} THEN Append(user_bans, row)
                                ELSE [user_bans EXCEPT ![MostRecent(own)] = row]
               /\ req' = [req EXCEPT ![r] =
                            [req[r] EXCEPT !.pc = "done", !.http = 200, !.banned = TRUE,
                                           !.banType = row.ban_type,
                                           !.expires = row.expires_at,
                                           !.reasonN = row.reasonN]]
          ELSE /\ user_bans' = user_bans
               /\ req' = [req EXCEPT ![r] =
                            [req[r] EXCEPT !.pc = "done", !.http = 500,
                                           !.logged = @ \cup {"handleBanThreshold"}]]
  /\ UNCHANGED <<bookStore, favStore, clock, cancellation_log, subStore>>

\* variant: the insert is skipped when the user already has an active ban
InsertBanRechecks(r) ==
  /\ req[r].pc = "ban_insert"
  /\ \E ok \in Outcomes :
       LET row == NewBan(req[r].user, req[r].count, req[r].temps + 1, now)
       IN IF ok
          THEN /\ user_bans' = IF ActiveBanRows(req[r].user, now) = {}
                                THEN Append(user_bans, row) ELSE user_bans
               /\ req' = [req EXCEPT ![r] =
                            [req[r] EXCEPT !.pc = "done", !.http = 200, !.banned = TRUE,
                                           !.banType = row.ban_type,
                                           !.expires = row.expires_at,
                                           !.reasonN = row.reasonN]]
          ELSE /\ user_bans' = user_bans
               /\ req' = [req EXCEPT ![r] =
                            [req[r] EXCEPT !.pc = "done", !.http = 500,
                                           !.logged = @ \cup {"handleBanThreshold"}]]
  /\ UNCHANGED <<bookStore, favStore, clock, cancellation_log, subStore>>

\* variant: a failed insert of the ban row is logged and the ban is reported
InsertBanSwallowsError(r) ==
  /\ req[r].pc = "ban_insert"
  /\ \E ok \in Outcomes :
       LET row == NewBan(req[r].user, req[r].count, req[r].temps + 1, now)
       IN /\ user_bans' = IF ok THEN Append(user_bans, row) ELSE user_bans
          /\ req' = [req EXCEPT ![r] =
                       [req[r] EXCEPT !.pc = "done", !.http = 200, !.banned = TRUE,
                                      !.banType = row.ban_type,
                                      !.expires = row.expires_at,
                                      !.reasonN = row.reasonN,
                                      !.logged = IF ok THEN @
                                                 ELSE @ \cup {"handleBanThreshold"}]]
  /\ UNCHANGED <<bookStore, favStore, clock, cancellation_log, subStore>>

\* handleBanThreshold: insert the permanent or the temporary ban, 500 on error
InsertBan(r) ==
  /\ req[r].pc = "ban_insert"
  /\ \E ok \in Outcomes :
       LET row == NewBan(req[r].user, req[r].count, req[r].temps + 1, now)
       IN IF ok
          THEN /\ user_bans' = Append(user_bans, row)
               /\ req' = [req EXCEPT ![r] =
                            [req[r] EXCEPT !.pc = "done", !.http = 200, !.banned = TRUE,
                                           !.banType = row.ban_type,
                                           !.expires = row.expires_at,
                                           !.reasonN = row.reasonN]]
          ELSE /\ user_bans' = user_bans
               /\ req' = [req EXCEPT ![r] =
                            [req[r] EXCEPT !.pc = "done", !.http = 500,
                                           !.logged = @ \cup {"handleBanThreshold"}]]
  /\ UNCHANGED <<bookStore, favStore, clock, cancellation_log, subStore>>

\* banService.checkBan(userId) is called: a single query
CheckBan(r) ==
  /\ FirstFree(r)
  /\ \E u \in Users, ok \in Outcomes :
       LET result == checkBan(u, now, ok)
       IN req' = [req EXCEPT ![r] =
                    [Idle EXCEPT !.pc = "done", !.op = "check", !.user = u,
                                 !.http = 200, !.banned = result.banned,
                                 !.logged = IF ok THEN {} ELSE {"checkBan"},
                                 !.banType = result.type,
                                 !.expires = result.expires_at,
                                 !.reasonN = result.reasonN]]
  /\ UNCHANGED <<bookStore, favStore, clock, banStore, subStore>>

\* the response is sent and the slot is free again
Respond(r) ==
  /\ req[r].pc = "done"
  /\ req' = [req EXCEPT ![r] = Idle]
  /\ UNCHANGED <<bookStore, favStore, clock, banStore, subStore>>

\* days pass
TickBan ==
  /\ ticks < MaxTicks
  /\ ticks' = ticks + 1
  /\ \E d \in BanTickSteps : now' = now + d
  /\ UNCHANGED <<bookStore, favStore, faults, banStore, subStore, req>>

\* days pass between requests
TickQuiet ==
  /\ \A r \in Slots : req[r].pc = "idle"
  /\ TickBan

\* ---- Subscription Lifecycle Manager ----

\* PLAN_CONFIG
PlanTypes == {"specialist_monthly", "specialist_yearly"}
PlanDays(planType) == IF planType = "specialist_monthly" THEN 30 ELSE 365
PlanAmount(planType) == IF planType = "specialist_monthly" THEN 50 ELSE 500

\* plan identifiers a caller may send
PlanInputs == {"specialist_monthly", "bogus"}

SubTickSteps == {30}

\* rows matched by .eq('provider_id', p).eq('status', 'active').gte('expires_at', <t>)
ActiveSubRows(p, t) ==
  {i \in DOMAIN subscriptions :
     /\ subscriptions[i].provider_id = p
     /\ subscriptions[i].status = "active"
     /\ subscriptions[i].expires_at >= t}

\* .single(): the row when exactly one row matches, else no data (0)
Single(S) == IF Cardinality(S) = 1 THEN CHOOSE i \in S : TRUE ELSE 0

\* .eq('provider_id', p).order('created_at', desc).limit(1).single()
LatestSub(p) ==
  LET S == {i \in DOMAIN subscriptions : subscriptions[i].provider_id = p}
  IN IF S = {} THEN 0 ELSE MostRecent(S)

\* variant: the trigger sets the flag on INSERT only
set_phone_visible_defaultInsertOnly(old, new) == new

\* trigger set_phone_visible_default on UPDATE of profiles
set_phone_visible_default(old, new) ==
  IF new.user_type = "provider" /\ old.provider_tier # new.provider_tier
  THEN [new EXCEPT !.phone_visible =
                     IF new.provider_tier = "specialist" THEN "false" ELSE "true"]
  ELSE new

\* profiles.update({ provider_tier: tier }).eq('user_id', u)
UpdateTier(u, tier) ==
  [profiles EXCEPT ![u] =
     set_phone_visible_default(profiles[u], [profiles[u] EXCEPT !.provider_tier = tier])]

InFlightCreates ==
  Cardinality({r \in Slots : req[r].op = "create" /\ req[r].pc \in {"cs_profile", "cs_existing", "cs_insert"}})

\* createSubscription(providerId, userId, planType): the self-service check
CreateSubscription(r) ==
  /\ FirstFree(r)
  /\ Len(subscriptions) + InFlightCreates < MaxSubs
  /\ \E p \in Users, u \in Users, pl \in PlanInputs :
       req' = [req EXCEPT ![r] =
                 IF p # u
                 THEN [Idle EXCEPT !.pc = "done", !.op = "create", !.provider = p,
                                   !.user = u, !.plan = pl, !.http = 403]
                 ELSE [Idle EXCEPT !.pc = "cs_profile", !.op = "create", !.provider = p,
                                   !.user = u, !.plan = pl]]
  /\ UNCHANGED <<bookStore, favStore, clock, banStore, subStore>>

\* createSubscription: verify the user is a provider
CsReadProfile(r) ==
  /\ req[r].pc = "cs_profile"
  /\ \E ok \in Outcomes :
       req' = [req EXCEPT ![r] =
                 IF ok /\ profiles[req[r].provider].user_type = "provider"
                 THEN [req[r] EXCEPT !.pc = "cs_existing"]
                 ELSE [req[r] EXCEPT !.pc = "done", !.http = 403]]
  /\ UNCHANGED <<bookStore, favStore, clock, banStore, subStore>>

\* createSubscription: check for an existing active subscription, then the plan
CsReadExisting(r) ==
  /\ req[r].pc = "cs_existing"
  /\ \E ok \in Outcomes :
       LET existing == IF ok THEN Single(ActiveSubRows(req[r].provider, now)) ELSE 0
       IN req' = [req EXCEPT ![r] =
                    IF existing # 0
                    THEN [req[r] EXCEPT !.pc = "done", !.http = 409]
                    ELSE IF req[r].plan \notin PlanTypes
                    THEN [req[r] EXCEPT !.pc = "done", !.http = 400]
                    ELSE [req[r] EXCEPT !.pc = "cs_insert"]]
  /\ UNCHANGED <<bookStore, favStore, clock, banStore, subStore>>

\* variant: the insert of the subscription also grants the specialist tier
CsInsertGrantsTier(r) ==
  /\ req[r].pc = "cs_insert"
  /\ \E ok \in Outcomes :
       IF ok
       THEN /\ subscriptions' = Append(subscriptions,
                 [provider_id |-> req[r].provider, plan_type |-> req[r].plan,
                  status |-> "active", started_at |-> now,
                  expires_at |-> now + PlanDays(req[r].plan),
                  amount |-> PlanAmount(req[r].plan)])
            /\ profiles' = UpdateTier(req[r].provider, "specialist")
            /\ req' = [req EXCEPT ![r] =
                         [req[r] EXCEPT !.pc = "done", !.http = 201,
                                        !.sub = Len(subscriptions) + 1,
                                        !.substatus = "active"]]
       ELSE /\ subscriptions' = subscriptions
            /\ profiles' = profiles
            /\ req' = [req EXCEPT ![r] = [req[r] EXCEPT !.pc = "done", !.http = 500]]
  /\ UNCHANGED <<bookStore, favStore, clock, banStore>>

\* createSubscription: insert the active row
CsInsert(r) ==
  /\ req[r].pc = "cs_insert"
  /\ \E ok \in Outcomes :
       IF ok
       THEN /\ subscriptions' = Append(subscriptions,
                 [provider_id |-> req[r].provider, plan_type |-> req[r].plan,
                  status |-> "active", started_at |-> now,
                  expires_at |-> now + PlanDays(req[r].plan),
                  amount |-> PlanAmount(req[r].plan)])
            /\ req' = [req EXCEPT ![r] =
                         [req[r] EXCEPT !.pc = "done", !.http = 201,
                                        !.sub = Len(subscriptions) + 1,
                                        !.substatus = "active"]]
       ELSE /\ subscriptions' = subscriptions
            /\ req' = [req EXCEPT ![r] = [req[r] EXCEPT !.pc = "done", !.http = 500]]
  /\ UNCHANGED <<bookStore, favStore, clock, banStore, profiles>>

\* getStatus(providerId) is called
GetStatus(r) ==
  /\ FirstFree(r)
  /\ \E p \in Users :
       req' = [req EXCEPT ![r] =
                 [Idle EXCEPT !.pc = "gs_read", !.op = "status", !.provider = p, !.user = p]]
  /\ UNCHANGED <<bookStore, favStore, clock, banStore, subStore>>

\* cancelSubscription(providerId, userId): the self-service check, then getStatus
CancelSubscription(r) ==
  /\ FirstFree(r)
  /\ \E p \in Users, u \in Users :
       req' = [req EXCEPT ![r] =
                 IF p # u
                 THEN [Idle EXCEPT !.pc = "done", !.op = "cancelsub", !.provider = p,
                                   !.user = u, !.http = 403]
                 ELSE [Idle EXCEPT !.pc = "gs_read", !.op = "cancelsub", !.provider = p,
                                   !.user = u]]
  /\ UNCHANGED <<bookStore, favStore, clock, banStore, subStore>>

\* what the caller of getStatus does with the row it returns
AfterGetStatus(q) ==
  IF q.op = "status"
  THEN [q EXCEPT !.pc = "done", !.http = 200]
  ELSE IF q.sub = 0 \/ q.substatus # "active"
  THEN [q EXCEPT !.pc = "done", !.http = 404]
  ELSE [q EXCEPT !.pc = "cn_update"]

\* getStatus: read the most recently created row; null on error or no row
GsRead(r) ==
  /\ req[r].pc = "gs_read"
  /\ \E ok \in Outcomes :
       LET id == IF ok THEN LatestSub(req[r].provider) ELSE 0
       IN req' = [req EXCEPT ![r] =
                    IF id = 0
                    THEN AfterGetStatus([req[r] EXCEPT !.sub = 0, !.substatus = "none"])
                    ELSE IF subscriptions[id].status = "active"
                            /\ subscriptions[id].expires_at < now
                    THEN [req[r] EXCEPT !.pc = "gs_expire", !.sub = id,
                                        !.substatus = "active"]
                    ELSE AfterGetStatus([req[r] EXCEPT !.sub = id,
                                           !.substatus = subscriptions[id].status])]
  /\ UNCHANGED <<bookStore, favStore, clock, banStore, subStore>>

\* variant: the lazy expiry leaves the subscription row as it is
GsExpireKeepsRow(r) ==
  /\ req[r].pc = "gs_expire"
  /\ req' = [req EXCEPT ![r] = [req[r] EXCEPT !.pc = "gs_tier"]]
  /\ UNCHANGED <<bookStore, favStore, clock, banStore, subStore>>

\* getStatus: auto-expire, update({ status: 'expired' }).eq('id', id), result unchecked
GsExpire(r) ==
  /\ req[r].pc = "gs_expire"
  /\ \E ok \in Outcomes :
       subscriptions' =
         IF ok THEN [subscriptions EXCEPT ![req[r].sub].status = "expired"]
         ELSE subscriptions
  /\ req' = [req EXCEPT ![r] = [req[r] EXCEPT !.pc = "gs_tier"]]
  /\ UNCHANGED <<bookStore, favStore, clock, banStore, profiles>>

\* variant: the lazy expiry leaves the tier as it is
GsTierKeepsTier(r) ==
  /\ req[r].pc = "gs_tier"
  /\ req' = [req EXCEPT ![r] = AfterGetStatus([req[r] EXCEPT !.substatus = "expired"])]
  /\ UNCHANGED <<bookStore, favStore, clock, banStore, subStore>>

\* getStatus: downgrade the tier (result unchecked), return the row as expired
GsTier(r) ==
  /\ req[r].pc = "gs_tier"
  /\ \E ok \in Outcomes :
       profiles' = IF ok THEN UpdateTier(req[r].provider, "basic") ELSE profiles
  /\ req' = [req EXCEPT ![r] = AfterGetStatus([req[r] EXCEPT !.substatus = "expired"])]
  /\ UNCHANGED <<bookStore, favStore, clock, banStore, subscriptions>>

\* cancelSubscription: update({ status: 'cancelled' }).eq('id', id), 500 on error
CnUpdate(r) ==
  /\ req[r].pc = "cn_update"
  /\ \E ok \in Outcomes :
       IF ok
       THEN /\ subscriptions' = [subscriptions EXCEPT ![req[r].sub].status = "cancelled"]
            /\ req' = [req EXCEPT ![r] =
                         [req[r] EXCEPT !.pc = "cn_tier", !.substatus = "cancelled"]]
       ELSE /\ subscriptions' = subscriptions
            /\ req' = [req EXCEPT ![r] = [req[r] EXCEPT !.pc = "done", !.http = 500]]
  /\ UNCHANGED <<bookStore, favStore, clock, banStore, profiles>>

\* variant: the cancellation leaves the tier as it is
CnTierKeepsTier(r) ==
  /\ req[r].pc = "cn_tier"
  /\ req' = [req EXCEPT ![r] = [req[r] EXCEPT !.pc = "done", !.http = 200]]
  /\ UNCHANGED <<bookStore, favStore, clock, banStore, subStore>>

\* cancelSubscription: downgrade the tier (result unchecked), return the row
CnTier(r) ==
  /\ req[r].pc = "cn_tier"
  /\ \E ok \in Outcomes :
       profiles' = IF ok THEN UpdateTier(req[r].provider, "basic") ELSE profiles
  /\ req' = [req EXCEPT ![r] = [req[r] EXCEPT !.pc = "done", !.http = 200]]
  /\ UNCHANGED <<bookStore, favStore, clock, banStore, subscriptions>>

\* upgradeTier(userId, requesterId): the self-service check
UpgradeTier(r) ==
  /\ FirstFree(r)
  /\ \E p \in Users, u \in Users :
       req' = [req EXCEPT ![r] =
                 IF p # u
                 THEN [Idle EXCEPT !.pc = "done", !.op = "upgrade", !.provider = p,
                                   !.user = u, !.http = 403]
                 ELSE [Idle EXCEPT !.pc = "ut_read", !.op = "upgrade", !.provider = p,
                                   !.user = u]]
  /\ UNCHANGED <<bookStore, favStore, clock, banStore, subStore>>

\* upgradeTier: an active subscription is required, 402 without one
UtRead(r) ==
  /\ req[r].pc = "ut_read"
  /\ \E ok \in Outcomes :
       LET subscription == IF ok THEN Single(ActiveSubRows(req[r].provider, now)) ELSE 0
       IN req' = [req EXCEPT ![r] =
                    IF subscription = 0
                    THEN [req[r] EXCEPT !.pc = "done", !.http = 402]
                    ELSE [req[r] EXCEPT !.pc = "ut_update", !.sub = subscription]]
  /\ UNCHANGED <<bookStore, favStore, clock, banStore, subStore>>

\* upgradeTier: update({ provider_tier: 'specialist' }) of the provider's profile
UtUpdate(r) ==
  /\ req[r].pc = "ut_update"
  /\ \E ok \in Outcomes :
       IF ok /\ profiles[req[r].provider].user_type = "provider"
       THEN /\ profiles' = UpdateTier(req[r].provider, "specialist")
            /\ req' = [req EXCEPT ![r] =
                         [req[r] EXCEPT !.pc = "done", !.http = 200,
                                        !.shown = {[provider |-> req[r].provider,
                                                    phone |-> profiles[req[r].provider].phone]}]]
       ELSE /\ profiles' = profiles
            /\ req' = [req EXCEPT ![r] = [req[r] EXCEPT !.pc = "done", !.http = 500]]
  /\ UNCHANGED <<bookStore, favStore, clock, banStore, subscriptions>>

\* days pass, also while requests are in flight
TickSub ==
  /\ ticks < MaxTicks
  /\ ticks' = ticks + 1
  /\ \E d \in SubTickSteps : now' = now + d
  /\ UNCHANGED <<bookStore, favStore, faults, banStore, subStore, req>>

\* ---- Tier & Visibility Policy: provider representations returned to callers ----

\* variant: the phone is hidden only when phone_visible is exactly false
sanitizeProviderStrictFalse(provider) ==
  IF provider.provider_tier = "specialist" /\ provider.phone_visible = "false"
  THEN [provider EXCEPT !.phone = "null"]
  ELSE provider

\* sanitizeProvider: hide the phone of a specialist unless phone_visible is true
sanitizeProvider(provider) ==
  IF provider.provider_tier = "specialist" /\ provider.phone_visible # "true"
  THEN [provider EXCEPT !.phone = "null"]
  ELSE provider

\* the provider representation a response carries
Shown(p, provider) == [provider |-> p, phone |-> provider.phone]

\* GET /api/providers/:id -> getProviderById(userId, requesterId)
GetProviderById(r) ==
  /\ FirstFree(r)
  /\ \E userId \in Users, requesterId \in Users \cup {NoUser}, ok \in Outcomes :
       req' = [req EXCEPT ![r] =
                 IF ~ok \/ profiles[userId].user_type # "provider"
                 THEN [Idle EXCEPT !.pc = "done", !.op = "lookup", !.provider = userId,
                                   !.user = requesterId, !.http = 404]
                 ELSE [Idle EXCEPT !.pc = "done", !.op = "lookup", !.provider = userId,
                                   !.user = requesterId, !.http = 200,
                                   !.shown =
                                     {Shown(userId,
                                            IF requesterId = userId THEN profiles[userId]
                                            ELSE sanitizeProvider(profiles[userId]))}]]
  /\ UNCHANGED <<bookStore, favStore, clock, banStore, subStore>>

TierFilters == {"any", "basic", "specialist"}

\* GET /api/providers -> listProviders(query): available providers, sanitized
ListProviders(r) ==
  /\ FirstFree(r)
  /\ \E tier \in TierFilters, ok \in Outcomes :
       LET data == {p \in Users : /\ profiles[p].user_type = "provider"
                                  /\ profiles[p].is_available
                                  /\ tier # "any" => profiles[p].provider_tier = tier}
       IN req' = [req EXCEPT ![r] =
                    IF ~ok
                    THEN [Idle EXCEPT !.pc = "done", !.op = "list", !.tier = tier, !.http = 500]
                    ELSE [Idle EXCEPT !.pc = "done", !.op = "list", !.tier = tier, !.http = 200,
                                      !.shown = {Shown(p, sanitizeProvider(profiles[p])) :
                                                   p \in data}]]
  /\ UNCHANGED <<bookStore, favStore, clock, banStore, subStore>>

\* POST /api/favorites -> addFavorite: look for the row
AddFavorite(r) ==
  /\ FirstFree(r)
  /\ \E userId \in Users, providerId \in Users, ok \in Outcomes :
       req' = [req EXCEPT ![r] =
                 IF ok /\ <<userId, providerId>> \in favorites
                 THEN [Idle EXCEPT !.pc = "done", !.op = "fav_add", !.user = userId,
                                   !.provider = providerId, !.http = 201]
                 ELSE [Idle EXCEPT !.pc = "fav_insert", !.op = "fav_add", !.user = userId,
                                   !.provider = providerId]]
  /\ UNCHANGED <<bookStore, favStore, clock, banStore, subStore>>

\* addFavorite: insert the row, 500 on error
FavInsert(r) ==
  /\ req[r].pc = "fav_insert"
  /\ \E ok \in Outcomes :
       IF ok
       THEN /\ favorites' = favorites \cup {<<req[r].user, req[r].provider>>}
            /\ req' = [req EXCEPT ![r] = [req[r] EXCEPT !.pc = "done", !.http = 201]]
       ELSE /\ favorites' = favorites
            /\ req' = [req EXCEPT ![r] = [req[r] EXCEPT !.pc = "done", !.http = 500]]
  /\ UNCHANGED <<bookStore, clock, banStore, subStore>>

\* DELETE /api/favorites/:providerId -> removeFavorite
RemoveFavorite(r) ==
  /\ FirstFree(r)
  /\ \E userId \in Users, providerId \in Users, ok \in Outcomes :
       /\ favorites' = IF ok THEN favorites \ {<<userId, providerId>>} ELSE favorites
       /\ req' = [req EXCEPT ![r] =
                    [Idle EXCEPT !.pc = "done", !.op = "fav_remove", !.user = userId,
                                 !.provider = providerId,
                                 !.http = IF ok THEN 200 ELSE 500]]
  /\ UNCHANGED <<bookStore, clock, banStore, subStore>>

\* GET /api/favorites -> listFavorites(userId): favorites joined with profiles
ListFavorites(r) ==
  /\ FirstFree(r)
  /\ \E userId \in Users, ok \in Outcomes :
       req' = [req EXCEPT ![r] =
                 IF ~ok
                 THEN [Idle EXCEPT !.pc = "done", !.op = "fav_list", !.user = userId,
                                   !.http = 500]
                 ELSE [Idle EXCEPT !.pc = "done", !.op = "fav_list", !.user = userId,
                                   !.http = 200,
                                   !.shown = {Shown(f[2], profiles[f[2]]) :
                                                f \in {g \in favorites : g[1] = userId}}]]
  /\ UNCHANGED <<bookStore, favStore, clock, banStore, subStore>>

\* ---- provider registration and profile update ----

\* POST /api/providers: the body's tier field, required by createProviderSchema
RegisterTiers == {"basic", "specialist"}

\* createProvider(userId, phone, body): the caller's profile becomes a provider
\* profile; the tier stays at the column's value
RegisterProvider(r) ==
  /\ FirstFree(r)
  /\ \E u \in Users, tier \in RegisterTiers, ok \in Outcomes :
       IF ok
       THEN /\ profiles' = [profiles EXCEPT ![u].user_type = "provider"]
            /\ req' = [req EXCEPT ![r] =
                         [Idle EXCEPT !.pc = "done", !.op = "register", !.user = u,
                                      !.provider = u, !.tier = tier, !.http = 201]]
       ELSE /\ profiles' = profiles
            /\ req' = [req EXCEPT ![r] =
                         [Idle EXCEPT !.pc = "done", !.op = "register", !.user = u,
                                      !.provider = u, !.tier = tier, !.http = 500]]
  /\ UNCHANGED <<bookStore, favStore, clock, banStore, subscriptions>>

\* PUT /api/providers/me -> updateProfile(userId, body): the owner's fields of
\* updateProfileSchema, of which the model keeps is_available
UpdateProfile(r) ==
  /\ FirstFree(r)
  /\ \E u \in Users, is_available \in BOOLEAN, ok \in Outcomes :
       IF ok /\ profiles[u].user_type = "provider"
       THEN /\ profiles' = [profiles EXCEPT ![u].is_available = is_available]
            /\ req' = [req EXCEPT ![r] =
                         [Idle EXCEPT !.pc = "done", !.op = "update", !.user = u,
                                      !.provider = u, !.http = 200]]
       ELSE /\ profiles' = profiles
            /\ req' = [req EXCEPT ![r] =
                         [Idle EXCEPT !.pc = "done", !.op = "update", !.user = u,
                                      !.provider = u, !.http = IF ok THEN 404 ELSE 500]]
  /\ UNCHANGED <<bookStore, favStore, clock, banStore, subscriptions>>

\* ---- reviews ----

\* enum booking_status
BookingStatuses == {"pending", "confirmed", "in_progress", "completed", "cancelled"}

\* the booking that reviews and direct updates name
ReviewedBookings == {1}

\* policy "Participants can update bookings": the client or the provider of a
\* booking updates its row through the store, here its status
ParticipantUpdate ==
  /\ \E b \in ReviewedBookings, u \in Users, st \in BookingStatuses :
       /\ u \in {bookings[b].client_id, bookings[b].provider_id}
       /\ st # bookings[b].status
       /\ bookings' = [bookings EXCEPT ![b].status = st]
  /\ UNCHANGED <<reviews, favStore, clock, banStore, subStore, req>>

\* reviewService.createReview({ bookingId, clientId, rating, comment }) is called
CreateReview(r) ==
  /\ FirstFree(r)
  /\ \E clientId \in Users, b \in ReviewedBookings :
       req' = [req EXCEPT ![r] =
                 [Idle EXCEPT !.pc = "rv_fetch", !.op = "review", !.user = clientId,
                              !.booking = b]]
  /\ UNCHANGED <<bookStore, favStore, clock, banStore, subStore>>

\* createReview steps 1-3: fetch the booking (404), it must be completed (400),
\* the reviewer must be its client (403)
RvFetch(r) ==
  /\ req[r].pc = "rv_fetch"
  /\ \E ok \in Outcomes :
       LET booking == bookings[req[r].booking]
       IN req' = [req EXCEPT ![r] =
                    IF ~ok
                    THEN [req[r] EXCEPT !.pc = "done", !.http = 404]
                    ELSE IF booking.status # "completed"
                    THEN [req[r] EXCEPT !.pc = "done", !.http = 400]
                    ELSE IF booking.client_id # req[r].user
                    THEN [req[r] EXCEPT !.pc = "done", !.http = 403]
                    ELSE [req[r] EXCEPT !.pc = "rv_existing",
                                        !.provider = booking.provider_id]]
  /\ UNCHANGED <<bookStore, favStore, clock, banStore, subStore>>

\* createReview step 4: a review of the booking exists already (409)
RvExisting(r) ==
  /\ req[r].pc = "rv_existing"
  /\ \E ok \in Outcomes :
       LET existingReview == {rv \in reviews : rv.booking_id = req[r].booking}
       IN req' = [req EXCEPT ![r] =
                    IF ok /\ Cardinality(existingReview) = 1
                    THEN [req[r] EXCEPT !.pc = "done", !.http = 409]
                    ELSE [req[r] EXCEPT !.pc = "rv_insert"]]
  /\ UNCHANGED <<bookStore, favStore, clock, banStore, subStore>>

\* trigger check_booking_completed_for_review, BEFORE INSERT ON reviews
check_booking_completed_for_review(new) ==
  /\ bookings[new.booking_id].status = "completed"
  /\ bookings[new.booking_id].client_id = new.reviewer_id
  /\ bookings[new.booking_id].provider_id = new.provider_id

\* createReview step 5: insert the review, 500 on error
RvInsert(r) ==
  /\ req[r].pc = "rv_insert"
  /\ \E ok \in Outcomes :
       LET new == [reviewer_id |-> req[r].user, provider_id |-> req[r].provider,
                   booking_id |-> req[r].booking]
       IN IF ok /\ check_booking_completed_for_review(new)
          THEN /\ reviews' = reviews \cup {new}
               /\ req' = [req EXCEPT ![r] = [req[r] EXCEPT !.pc = "done", !.http = 201]]
          ELSE /\ reviews' = reviews
               /\ req' = [req EXCEPT ![r] =
                            [req[r] EXCEPT !.pc = "done", !.http = 500,
                                           !.logged = @ \cup {"createReview"}]]
  /\ UNCHANGED <<bookings, favStore, clock, banStore, subStore>>

\* ---- booking status updates ----

\* a user who is neither client nor provider of any booking
Outsider == "u3"

\* updateStatusSchema: status is 'confirmed' or 'completed'
updateStatusSchema == {"confirmed", "completed"}

\* PATCH /:id/status -> bookingService.updateBookingStatus(bookingId, userId, newStatus)
UpdateBookingStatus(r) ==
  /\ FirstFree(r)
  /\ \E b \in ReviewedBookings, userId \in Users \cup {Outsider},
        newStatus \in updateStatusSchema :
       req' = [req EXCEPT ![r] =
                 [Idle EXCEPT !.pc = "ub_fetch", !.op = "bkstatus", !.user = userId,
                              !.booking = b, !.newStatus = newStatus]]
  /\ UNCHANGED <<bookStore, favStore, clock, banStore, subStore>>

\* updateBookingStatus: fetch the booking (404), the caller must be a
\* participant (403), only the provider confirms (403) and only a pending
\* booking (400), only a confirmed or in_progress booking is completed (400)
UbFetch(r) ==
  /\ req[r].pc = "ub_fetch"
  /\ \E ok \in Outcomes :
       LET booking == bookings[req[r].booking]
           isClient == booking.client_id = req[r].user
           isProvider == booking.provider_id = req[r].user
           completableStatuses == {"confirmed", "in_progress"}
       IN req' = [req EXCEPT ![r] =
                    IF ~ok
                    THEN [req[r] EXCEPT !.pc = "done", !.http = 404]
                    ELSE IF ~isClient /\ ~isProvider
                    THEN [req[r] EXCEPT !.pc = "done", !.http = 403]
                    ELSE IF req[r].newStatus = "confirmed" /\ ~isProvider
                    THEN [req[r] EXCEPT !.pc = "done", !.http = 403]
                    ELSE IF req[r].newStatus = "confirmed" /\ booking.status # "pending"
                    THEN [req[r] EXCEPT !.pc = "done", !.http = 400]
                    ELSE IF /\ req[r].newStatus = "completed"
                            /\ booking.status \notin completableStatuses
                    THEN [req[r] EXCEPT !.pc = "done", !.http = 400]
                    ELSE [req[r] EXCEPT !.pc = "ub_update"]]
  /\ UNCHANGED <<bookStore, favStore, clock, banStore, subStore>>

\* updateBookingStatus: update({ status: newStatus }).eq('id', bookingId), 500 on error
UbUpdate(r) ==
  /\ req[r].pc = "ub_update"
  /\ \E ok \in Outcomes :
       IF ok
       THEN /\ bookings' = [bookings EXCEPT ![req[r].booking].status = req[r].newStatus]
            /\ req' = [req EXCEPT ![r] = [req[r] EXCEPT !.pc = "done", !.http = 200]]
       ELSE /\ bookings' = bookings
            /\ req' = [req EXCEPT ![r] =
                         [req[r] EXCEPT !.pc = "done", !.http = 500,
                                        !.logged = @ \cup {"updateBookingStatus"}]]
  /\ UNCHANGED <<reviews, favStore, clock, banStore, subStore>>

\* ---- call signaling ----

\* io.use: the handshake token is resolved to a user; without a token or with
\* an invalid one the connection is refused
SocketConnect(r) ==
  /\ FirstFree(r)
  /\ \E token \in Users \cup {InvalidCred, NoUser} :
       req' = [req EXCEPT ![r] =
                 IF token \in Users
                 THEN [Idle EXCEPT !.pc = "sk_profile", !.op = "socket", !.cred = token,
                                   !.user = token]
                 ELSE [Idle EXCEPT !.pc = "done", !.op = "socket", !.cred = token,
                                   !.emitted = "connect_error"]]
  /\ UNCHANGED <<bookStore, favStore, clock, banStore, subStore>>

\* io.use: socket.data.tier is the provider_tier of the user's provider
\* profile, undefined without one
SocketProfile(r) ==
  /\ req[r].pc = "sk_profile"
  /\ \E ok \in Outcomes :
       LET profile == profiles[req[r].user]
       IN req' = [req EXCEPT ![r] =
                    [req[r] EXCEPT !.pc = "connected",
                                   !.tier = IF ok /\ profile.user_type = "provider"
                                            THEN profile.provider_tier
                                            ELSE "none"]]
  /\ UNCHANGED <<bookStore, favStore, clock, banStore, subStore>>

\* socket.join(roomId) and the user-joined event
Joined(q) == [q EXCEPT !.pc = "done", !.joined = TRUE, !.emitted = "user-joined"]

\* socket.emit('error', ...)
JoinError(q) == [q EXCEPT !.pc = "done", !.emitted = "error"]

\* join-room of call_{userIdA}_{userIdB}: the socket's user is one of the two,
\* and a caller who connected as a specialist joins at once
JoinRoom(r) ==
  /\ req[r].pc = "connected"
  /\ \E userIdA \in Users, userIdB \in Users :
       LET q == [req[r] EXCEPT !.room = <<userIdA, userIdB>>]
           isCallerSpecialist == req[r].tier = "specialist"
       IN req' = [req EXCEPT ![r] =
                    IF req[r].user # userIdA /\ req[r].user # userIdB
                    THEN JoinError(q)
                    ELSE IF isCallerSpecialist
                    THEN Joined(q)
                    ELSE [q EXCEPT !.pc = "jr_other"]]
  /\ UNCHANGED <<bookStore, favStore, clock, banStore, subStore>>

\* join-room, caller not a specialist: the other party must be a specialist
JoinOther(r) ==
  /\ req[r].pc = "jr_other"
  /\ \E ok \in Outcomes :
       LET otherUserId == IF req[r].user = req[r].room[1]
                          THEN req[r].room[2] ELSE req[r].room[1]
           otherProfile == profiles[otherUserId]
       IN req' = [req EXCEPT ![r] =
                    IF \/ ~ok
                       \/ otherProfile.user_type # "provider"
                       \/ otherProfile.provider_tier # "specialist"
                    THEN JoinError(req[r])
                    ELSE Joined(req[r])]
  /\ UNCHANGED <<bookStore, favStore, clock, banStore, subStore>>

\* ---- initial states ----

\* the bookings another user cancelled on day 0, not among BookingIds
StrangerBookings == {101, 102, 103}

\* the rows of the bookings table before any request: open bookings between
\* the client u1 and the provider u2
InitBookings ==
  [b \in BookingIds |-> [status |-> "pending", client_id |-> "u1", provider_id |-> "u2"]]

\* what three cancellations of another user on day 0 leave in the store
StrangerLog ==
  [c \in {[user_id |-> "u2", booking_id |-> b, cancelled_at |-> 0] : b \in StrangerBookings}
     |-> 1]

StrangerBans == <<NewBan("u2", CANCEL_THRESHOLD, 1, 0)>>

InitProfiles ==
  [u \in Users |->
     IF u = "u1"
     THEN [user_type |-> "provider", provider_tier |-> "basic", phone_visible |-> "true",
           phone |-> "tel", is_available |-> TRUE]
     ELSE [user_type |-> "client", provider_tier |-> "basic", phone_visible |-> "null",
           phone |-> "tel", is_available |-> TRUE]]

Init ==
  /\ now = 0
  /\ ticks = 0
  /\ faults = FALSE
  /\ \/ cancellation_log = EmptyBag /\ user_bans = <<>>
     \/ cancellation_log = StrangerLog /\ user_bans = StrangerBans
  /\ subscriptions = <<>>
  /\ profiles = InitProfiles
  /\ favorites = {}
  /\ bookings = InitBookings
  /\ reviews = {}
  /\ req = [r \in Slots |-> Idle]

\* ---- the ban ledger under concurrent cancellations ----
NextBan ==
  \/ \E r \in Slots : RecordCancellation(r)
  \/ \E r \in Slots : LogInsert(r)
  \/ \E r \in Slots : CountCancellations(r)
  \/ \E r \in Slots : CountTempBans(r)
  \/ \E r \in Slots : InsertBan(r)
  \/ \E r \in Slots : CheckBan(r)
  \/ \E r \in Slots : Respond(r)
  \/ TickQuiet

\* another user's history is already in the store
InitBan == Init /\ cancellation_log = StrangerLog

SpecBan == InitBan /\ [][NextBan]_vars

\* ---- the router: one request at a time through gate, auth and handler ----
GateSlots == {1}

NextGate ==
  \/ \E r \in GateSlots : ArriveCancel(r)
  \/ \E r \in GateSlots : ArriveOther(r)
  \/ \E r \in GateSlots : banCheckWriteOnly(r)
  \/ \E r \in GateSlots : authMiddleware(r)
  \/ \E r \in GateSlots : Handler(r)
  \/ \E r \in GateSlots : BkFetch(r)
  \/ \E r \in GateSlots : BkUpdate(r)
  \/ \E r \in GateSlots : LogInsert(r)
  \/ \E r \in GateSlots : CountCancellations(r)
  \/ \E r \in GateSlots : CountTempBans(r)
  \/ \E r \in GateSlots : InsertBan(r)
  \/ \E r \in GateSlots : Respond(r)
  \/ TickBan

SpecGate == Init /\ [][NextGate]_vars

\* ---- the subscription lifecycle under concurrent requests ----
NextSub ==
  \/ \E r \in Slots : CreateSubscription(r)
  \/ \E r \in Slots : CsReadProfile(r)
  \/ \E r \in Slots : CsReadExisting(r)
  \/ \E r \in Slots : CsInsert(r)
  \/ \E r \in Slots : GetStatus(r)
  \/ \E r \in Slots : CancelSubscription(r)
  \/ \E r \in Slots : GsRead(r)
  \/ \E r \in Slots : GsExpire(r)
  \/ \E r \in Slots : GsTier(r)
  \/ \E r \in Slots : CnUpdate(r)
  \/ \E r \in Slots : CnTier(r)
  \/ \E r \in Slots : UpgradeTier(r)
  \/ \E r \in Slots : UtRead(r)
  \/ \E r \in Slots : UtUpdate(r)
  \/ \E r \in Slots : Respond(r)
  \/ TickSub

\* the ban tables are empty
InitSub == Init /\ cancellation_log = EmptyBag

SpecSub == InitSub /\ [][NextSub]_vars

\* ---- provider lookups over every stored profile ----
SingleSlot == {1}

\* the rows the profiles table can hold
ProfileRows ==
  [user_type : {"provider", "client"}, provider_tier : {"basic", "specialist"},
   phone_visible : {"true", "false", "null"}, phone : {"tel", "null"},
   is_available : BOOLEAN]

InitView ==
  /\ now = 0 /\ ticks = 0 /\ faults = FALSE
  /\ cancellation_log = EmptyBag /\ user_bans = <<>>
  /\ subscriptions = <<>>
  /\ profiles \in [Users -> ProfileRows]
  /\ favorites = {}
  /\ bookings = InitBookings
  /\ reviews = {}
  /\ req = [r \in Slots |-> Idle]

NextView ==
  \/ \E r \in SingleSlot : GetProviderById(r)
  \/ \E r \in SingleSlot : ListProviders(r)
  \/ \E r \in SingleSlot : AddFavorite(r)
  \/ \E r \in SingleSlot : FavInsert(r)
  \/ \E r \in SingleSlot : RemoveFavorite(r)
  \/ \E r \in SingleSlot : ListFavorites(r)
  \/ \E r \in SingleSlot : Respond(r)

SpecView == InitView /\ [][NextView]_vars

\* ---- every operation that touches a provider profile, one request at a time ----
NextTier ==
  \/ \E r \in SingleSlot : RegisterProvider(r)
  \/ \E r \in SingleSlot : UpdateProfile(r)
  \/ \E r \in SingleSlot : CreateSubscription(r)
  \/ \E r \in SingleSlot : CsReadProfile(r)
  \/ \E r \in SingleSlot : CsReadExisting(r)
  \/ \E r \in SingleSlot : CsInsert(r)
  \/ \E r \in SingleSlot : GetStatus(r)
  \/ \E r \in SingleSlot : CancelSubscription(r)
  \/ \E r \in SingleSlot : GsRead(r)
  \/ \E r \in SingleSlot : GsExpire(r)
  \/ \E r \in SingleSlot : GsTier(r)
  \/ \E r \in SingleSlot : CnUpdate(r)
  \/ \E r \in SingleSlot : CnTier(r)
  \/ \E r \in SingleSlot : UpgradeTier(r)
  \/ \E r \in SingleSlot : UtRead(r)
  \/ \E r \in SingleSlot : UtUpdate(r)
  \/ \E r \in SingleSlot : Respond(r)
  \/ TickSub

SpecTier == InitSub /\ [][NextTier]_vars

\* ---- the gate and the ban ledger when storage calls can fail, on one day ----
InitFaulty ==
  /\ now = 0
  /\ ticks = 0
  /\ faults = TRUE
  /\ cancellation_log = StrangerLog /\ user_bans = StrangerBans
  /\ subscriptions = <<>>
  /\ profiles = InitProfiles
  /\ favorites = {}
  /\ bookings = InitBookings
  /\ reviews = {}
  /\ req = [r \in Slots |-> Idle]

NextFaulty ==
  \/ \E r \in GateSlots : ArriveCancel(r)
  \/ \E r \in GateSlots : ArriveOther(r)
  \/ \E r \in GateSlots : banCheckWriteOnly(r)
  \/ \E r \in GateSlots : authMiddleware(r)
  \/ \E r \in GateSlots : Handler(r)
  \/ \E r \in GateSlots : BkFetch(r)
  \/ \E r \in GateSlots : BkUpdate(r)
  \/ \E r \in GateSlots : LogInsert(r)
  \/ \E r \in GateSlots : CountCancellations(r)
  \/ \E r \in GateSlots : CountTempBans(r)
  \/ \E r \in GateSlots : InsertBan(r)
  \/ \E r \in GateSlots : CheckBan(r)
  \/ \E r \in GateSlots : Respond(r)

SpecFaulty == InitFaulty /\ [][NextFaulty]_vars

\* ---- the subscription lifecycle when storage calls can fail ----
InitSubFaulty ==
  /\ now = 0
  /\ ticks = 0
  /\ faults = TRUE
  /\ cancellation_log = EmptyBag /\ user_bans = <<>>
  /\ subscriptions = <<>>
  /\ profiles = InitProfiles
  /\ favorites = {}
  /\ bookings = InitBookings
  /\ reviews = {}
  /\ req = [r \in Slots |-> Idle]

NextSubFaulty ==
  \/ \E r \in SingleSlot : CreateSubscription(r)
  \/ \E r \in SingleSlot : CsReadProfile(r)
  \/ \E r \in SingleSlot : CsReadExisting(r)
  \/ \E r \in SingleSlot : CsInsert(r)
  \/ \E r \in SingleSlot : GetStatus(r)
  \/ \E r \in SingleSlot : CancelSubscription(r)
  \/ \E r \in SingleSlot : GsRead(r)
  \/ \E r \in SingleSlot : GsExpire(r)
  \/ \E r \in SingleSlot : GsTier(r)
  \/ \E r \in SingleSlot : CnUpdate(r)
  \/ \E r \in SingleSlot : CnTier(r)
  \/ \E r \in SingleSlot : UpgradeTier(r)
  \/ \E r \in SingleSlot : UtRead(r)
  \/ \E r \in SingleSlot : UtUpdate(r)
  \/ \E r \in SingleSlot : Respond(r)
  \/ TickSub

SpecSubFaulty == InitSubFaulty /\ [][NextSubFaulty]_vars

\* ---- concurrent cancel requests for the bookings of one user ----
InitCancel == Init /\ cancellation_log = EmptyBag

NextCancel ==
  \/ \E r \in Slots : ArriveCancel(r)
  \/ \E r \in Slots : banCheckWriteOnly(r)
  \/ \E r \in Slots : authMiddleware(r)
  \/ \E r \in Slots : BkFetch(r)
  \/ \E r \in Slots : BkUpdate(r)
  \/ \E r \in Slots : LogInsert(r)
  \/ \E r \in Slots : CountCancellations(r)
  \/ \E r \in Slots : CountTempBans(r)
  \/ \E r \in Slots : InsertBan(r)
  \/ \E r \in Slots : Respond(r)

SpecCancel == InitCancel /\ [][NextCancel]_vars

\* ---- reviews next to cancel requests and direct updates of a booking ----
NextReview ==
  \/ \E r \in GateSlots : UpdateBookingStatus(r)
  \/ \E r \in GateSlots : UbFetch(r)
  \/ \E r \in GateSlots : UbUpdate(r)
  \/ \E r \in GateSlots : CreateReview(r)
  \/ \E r \in GateSlots : RvFetch(r)
  \/ \E r \in GateSlots : RvExisting(r)
  \/ \E r \in GateSlots : RvInsert(r)
  \/ ParticipantUpdate
  \/ \E r \in GateSlots : ArriveCancel(r)
  \/ \E r \in GateSlots : banCheckWriteOnly(r)
  \/ \E r \in GateSlots : authMiddleware(r)
  \/ \E r \in GateSlots : BkFetch(r)
  \/ \E r \in GateSlots : BkUpdate(r)
  \/ \E r \in GateSlots : LogInsert(r)
  \/ \E r \in GateSlots : CountCancellations(r)
  \/ \E r \in GateSlots : CountTempBans(r)
  \/ \E r \in GateSlots : InsertBan(r)
  \/ \E r \in GateSlots : Respond(r)

SpecReview == InitCancel /\ [][NextReview]_vars

\* ---- call signaling next to the subscription manager ----
NextSignal ==
  \/ \E r \in Slots : SocketConnect(r)
  \/ \E r \in Slots : SocketProfile(r)
  \/ \E r \in Slots : JoinRoom(r)
  \/ \E r \in Slots : JoinOther(r)
  \/ \E r \in Slots : CreateSubscription(r)
  \/ \E r \in Slots : CsReadProfile(r)
  \/ \E r \in Slots : CsReadExisting(r)
  \/ \E r \in Slots : CsInsert(r)
  \/ \E r \in Slots : GetStatus(r)
  \/ \E r \in Slots : CancelSubscription(r)
  \/ \E r \in Slots : GsRead(r)
  \/ \E r \in Slots : GsExpire(r)
  \/ \E r \in Slots : GsTier(r)
  \/ \E r \in Slots : CnUpdate(r)
  \/ \E r \in Slots : CnTier(r)
  \/ \E r \in Slots : UpgradeTier(r)
  \/ \E r \in Slots : UtRead(r)
  \/ \E r \in Slots : UtUpdate(r)
  \/ \E r \in Slots : Respond(r)
  \/ TickSub

SpecSignal == InitSub /\ [][NextSignal]_vars

\* ---- tier writes over every stored tier and phone-visible flag ----

\* the tier and flag columns the profile of u1 can hold; u2 stays a client
InitPhone ==
  /\ now = 0 /\ ticks = 0 /\ faults = FALSE
  /\ cancellation_log = EmptyBag /\ user_bans = <<>>
  /\ subscriptions = <<>>
  /\ \E row \in ProfileRows :
        /\ row.phone = "tel" /\ row.is_available
        /\ profiles = [InitProfiles EXCEPT !["u1"] = row]
  /\ favorites = {}
  /\ bookings = InitBookings
  /\ reviews = {}
  /\ req = [r \in Slots |-> Idle]

NextPhone ==
  \/ \E r \in SingleSlot : CreateSubscription(r)
  \/ \E r \in SingleSlot : CsReadProfile(r)
  \/ \E r \in SingleSlot : CsReadExisting(r)
  \/ \E r \in SingleSlot : CsInsert(r)
  \/ \E r \in SingleSlot : GetStatus(r)
  \/ \E r \in SingleSlot : CancelSubscription(r)
  \/ \E r \in SingleSlot : GsRead(r)
  \/ \E r \in SingleSlot : GsExpire(r)
  \/ \E r \in SingleSlot : GsTier(r)
  \/ \E r \in SingleSlot : CnUpdate(r)
  \/ \E r \in SingleSlot : CnTier(r)
  \/ \E r \in SingleSlot : UpgradeTier(r)
  \/ \E r \in SingleSlot : UtRead(r)
  \/ \E r \in SingleSlot : UtUpdate(r)
  \/ \E r \in SingleSlot : Respond(r)
  \/ TickSub

SpecPhone == InitPhone /\ [][NextPhone]_vars

\* ---- status updates and cancellations of bookings, two requests at a time ----
NextBooking ==
  \/ \E r \in Slots : UpdateBookingStatus(r)
  \/ \E r \in Slots : UbFetch(r)
  \/ \E r \in Slots : UbUpdate(r)
  \/ \E r \in Slots : ArriveCancel(r)
  \/ \E r \in Slots : banCheckWriteOnly(r)
  \/ \E r \in Slots : authMiddleware(r)
  \/ \E r \in Slots : BkFetch(r)
  \/ \E r \in Slots : BkUpdate(r)
  \/ \E r \in Slots : LogInsert(r)
  \/ \E r \in Slots : CountCancellations(r)
  \/ \E r \in Slots : CountTempBans(r)
  \/ \E r \in Slots : InsertBan(r)
  \/ \E r \in Slots : Respond(r)

SpecBooking == InitCancel /\ [][NextBooking]_vars

\* ==== Properties ====

\* restatements used by the properties, independent of the queries above
BansOf(u) == {i \in DOMAIN user_bans : user_bans[i].user_id = u}
HasPermanent(u) == \E i \in BansOf(u) : user_bans[i].ban_type = "permanent"
LiveTemporaries(u) ==
  {i \in BansOf(u) : user_bans[i].ban_type = "temporary" /\ user_bans[i].expires_at > now}
InWindow(u) ==
  {c \in BagToSet(cancellation_log) :
     c.user_id = u /\ now - c.cancelled_at <= 30}
WindowCount(u) == CountRows(cancellation_log, InWindow(u))
AppendsOneBan ==
  /\ Len(user_bans') = Len(user_bans) + 1
  /\ SubSeq(user_bans', 1, Len(user_bans)) = user_bans
InsertedBan == user_bans'[Len(user_bans')]
Checks(r) == req[r].pc = "idle" /\ req'[r].op = "check"

\* C1: every mutating request made with a valid credential of a user for whom
\* CheckBan reports an active ban is answered 403 with the ban's type, expiry
\* and reason, and never reaches the route handler.
C1_BannedWriterRejected ==
  [][\A r \in GateSlots :
       (/\ req[r].pc = "gate"
        /\ req'[r] # req[r]
        /\ req[r].method \in writeMethods
        /\ req[r].cred \in Users
        /\ checkBan(req[r].cred, now, TRUE).banned)
       => LET ban == checkBan(req[r].cred, now, TRUE)
          IN /\ req'[r].pc = "done"
             /\ req'[r].http = 403
             /\ req'[r].banType = ban.type
             /\ req'[r].expires = ban.expires_at
             /\ req'[r].reasonN = ban.reasonN]_vars

\* C2: a RecordCancellation that reaches the threshold and finds 2 temporary
\* ban rows of the user inserts exactly one ban row, permanent, with no expiry
\* and a reason naming 3 temporary bans, and answers banned/permanent.
C2_EscalationToPermanent ==
  [][\A r \in Slots :
       (req[r].pc = "ban_insert" /\ req[r].temps = 2 /\ req'[r] # req[r])
       => /\ AppendsOneBan
          /\ InsertedBan.user_id = req[r].user
          /\ InsertedBan.ban_type = "permanent"
          /\ InsertedBan.expires_at = Null
          /\ InsertedBan.reasonN = 3
          /\ req'[r].pc = "done"
          /\ req'[r].banned
          /\ req'[r].banType = "permanent"]_vars

C2_Witness ==
  \E r \in Slots :
     /\ req[r].pc = "done" /\ req[r].op = "cancel"
     /\ req[r].temps = 2 /\ req[r].banned /\ req[r].banType = "permanent"
     /\ Cardinality({i \in BansOf(req[r].user) : user_bans[i].ban_type = "temporary"}) = 2

\* C3: a RecordCancellation that counts 3 records in the window and finds no
\* temporary ban of the user inserts exactly one ban row, temporary, expiring
\* 7 days after its issuance, and answers banned/temporary.
C3_ThirdCancellationTempBan ==
  [][\A r \in Slots :
       (/\ req[r].pc = "ban_insert" /\ req[r].count = 3 /\ req[r].temps = 0
        /\ req'[r] # req[r])
       => /\ AppendsOneBan
          /\ InsertedBan.user_id = req[r].user
          /\ InsertedBan.ban_type = "temporary"
          /\ InsertedBan.expires_at = now + 7
          /\ req'[r].pc = "done"
          /\ req'[r].banned
          /\ req'[r].banType = "temporary"
          /\ req'[r].expires = now + 7]_vars

C3_Witness ==
  \E r \in Slots :
     /\ req[r].pc = "done" /\ req[r].op = "cancel"
     /\ req[r].count = 3 /\ req[r].temps = 0
     /\ req[r].banned /\ req[r].banType = "temporary"
     /\ Cardinality(BansOf(req[r].user)) = 1

\* C4: RecordCancellation counts exactly the user's records of the trailing
\* 30 days; with fewer than 3 of them it answers a not-banned warning and
\* inserts no ban row, and a ban row is only ever inserted on a count of 3 or
\* more.
C4_NoBanBelowThreshold ==
  [][/\ \A r \in Slots :
          (req[r].pc = "count" /\ req'[r] # req[r])
          => /\ req'[r].count = WindowCount(req[r].user)
             /\ WindowCount(req[r].user) < 3
                => /\ req'[r].pc = "done"
                   /\ req'[r].http = 200
                   /\ ~req'[r].banned
                   /\ user_bans' = user_bans
     /\ user_bans' # user_bans
        => \E r \in Slots :
              /\ req[r].pc = "ban_insert" /\ req'[r] # req[r]
              /\ req[r].count >= 3]_vars

C4_Witness ==
  \E r \in Slots :
     /\ req[r].pc = "done" /\ req[r].op = "cancel"
     /\ ~req[r].banned /\ req[r].count < 3
     /\ req[r].count = WindowCount(req[r].user)
     /\ LoggedBy(req[r].user) >= 3

\* C5: CheckBan answers banned exactly when the user has a permanent ban row
\* or a temporary one whose expiry is later than now (so not banned when all
\* rows are temporary and over); a permanent row stays, so the user is
\* reported banned ever after; the SQL helper is_user_banned agrees.
C5_CheckBanVerdict ==
  /\ [][\A r \in Slots :
          Checks(r)
          => (req'[r].banned
              <=> (HasPermanent(req'[r].user) \/ LiveTemporaries(req'[r].user) # {}))]_vars
  /\ [][\A u \in Users : HasPermanent(u) => HasPermanent(u)']_vars
  /\ [](\A u \in Users : is_user_banned(u, now) <=> checkBan(u, now, TRUE).banned)

C5_Witness ==
  \E r \in Slots :
     /\ req[r].pc = "done" /\ req[r].op = "check"
     /\ ~req[r].banned
     /\ BansOf(req[r].user) # {}
     /\ \A i \in BansOf(req[r].user) :
           user_bans[i].ban_type = "temporary" /\ user_bans[i].expires_at <= now

\* C6 as stated: CheckBan reports the most severe active ban: permanent when
\* the user has a permanent row, else the live temporary ban that expires last.
C6_MostSevereReported ==
  [][\A r \in Slots :
       (Checks(r) /\ req'[r].banned)
       => IF HasPermanent(req'[r].user)
          THEN req'[r].banType = "permanent"
          ELSE /\ req'[r].banType = "temporary"
               /\ \A i \in LiveTemporaries(req'[r].user) :
                     user_bans[i].expires_at <= req'[r].expires]_vars

\* C6 amended: CheckBan reports the active ban that was created last (the
\* permanent or still live row with no later such row of the user), and so
\* does getActiveBan.
C6_MostRecentReported ==
  /\ [][\A r \in Slots :
          (Checks(r) /\ req'[r].banned)
          => \E i \in BansOf(req'[r].user) :
                /\ user_bans[i].ban_type = "permanent" \/ i \in LiveTemporaries(req'[r].user)
                /\ \A j \in BansOf(req'[r].user) :
                      (user_bans[j].ban_type = "permanent"
                       \/ j \in LiveTemporaries(req'[r].user)) => j <= i
                /\ req'[r].banType = user_bans[i].ban_type
                /\ req'[r].expires = user_bans[i].expires_at
                /\ req'[r].reasonN = user_bans[i].reasonN]_vars
  /\ [](\A u \in Users :
          LET i == getActiveBan(u, now)
          IN IF i = 0 THEN HasPermanent(u) = FALSE /\ LiveTemporaries(u) = {}
             ELSE \A j \in BansOf(u) :
                     (user_bans[j].ban_type = "permanent" \/ j \in LiveTemporaries(u))
                     => j <= i)

C6_Witness ==
  \E r \in Slots :
     /\ req[r].pc = "done" /\ req[r].op = "check"
     /\ req[r].banType = "temporary"
     /\ \E i \in LiveTemporaries(req[r].user) :
           /\ \A j \in BansOf(req[r].user) : j <= i
           /\ \E j \in BansOf(req[r].user) : j < i /\ user_bans[j].ban_type = "permanent"
           /\ req[r].expires = user_bans[i].expires_at
           /\ req[r].reasonN = user_bans[i].reasonN
     /\ \A q \in Slots \ {r} : req[q].pc = "idle"

SubsOf(p) == {i \in DOMAIN subscriptions : subscriptions[i].provider_id = p}
Newest(p) == CHOOSE i \in SubsOf(p) : \A j \in SubsOf(p) : j <= i

\* C7: in every state each provider has at most one subscription row with
\* status active and expiry later than now.
C7_OneActiveSubscription ==
  \A p \in Users :
     Cardinality({i \in SubsOf(p) : /\ subscriptions[i].status = "active"
                                    /\ subscriptions[i].expires_at > now}) <= 1

\* C8: CreateSubscription is rejected with already-subscribed (409) whenever
\* the provider has an active subscription whose expiry has not passed, so it
\* never inserts a row then; with no such row (after a cancel or once the
\* expiry has passed) a create with a known plan goes on to insert.
C8_CreateRejectedWhileActive ==
  [][\A r \in Slots :
       LET live == {i \in SubsOf(req[r].provider) :
                      /\ subscriptions[i].status = "active"
                      /\ subscriptions[i].expires_at >= now}
       IN /\ (req[r].pc = "cs_existing" /\ req'[r] # req[r])
             => IF live # {} THEN req'[r].pc = "done" /\ req'[r].http = 409
                ELSE (req[r].plan \in PlanTypes) => req'[r].pc = "cs_insert"
          /\ (req[r].pc = "cs_insert" /\ req'[r] # req[r] /\ live # {})
             => subscriptions' = subscriptions]_vars

\* C9: GetStatus that finds the provider's most recently created row active
\* with its expiry passed sets that row's status to expired, sets the
\* provider's tier to basic and returns the row as expired; nothing else in
\* the tables changes by it.
C9_LazyExpiry ==
  [][\A r \in Slots :
       /\ (/\ req[r].pc = "gs_read" /\ req'[r] # req[r]
           /\ SubsOf(req[r].provider) # {}
           /\ subscriptions[Newest(req[r].provider)].status = "active"
           /\ subscriptions[Newest(req[r].provider)].expires_at < now)
          => /\ req'[r].pc = "gs_expire"
             /\ req'[r].sub = Newest(req[r].provider)
       /\ (req[r].pc = "gs_expire" /\ req'[r] # req[r])
          => /\ req'[r].pc = "gs_tier"
             /\ subscriptions'[req[r].sub].status = "expired"
             /\ \A i \in DOMAIN subscriptions :
                   i # req[r].sub => subscriptions'[i] = subscriptions[i]
             /\ DOMAIN subscriptions' = DOMAIN subscriptions
       /\ (req[r].pc = "gs_tier" /\ req'[r] # req[r])
          => /\ profiles'[req[r].provider].provider_tier = "basic"
             /\ \A u \in Users \ {req[r].provider} : profiles'[u] = profiles[u]
             /\ req'[r].sub = req[r].sub
             /\ req'[r].substatus = "expired"
             /\ req[r].op = "status" => (req'[r].pc = "done" /\ req'[r].http = 200)]_vars

C9_Witness ==
  \E r \in Slots :
     /\ req[r].pc = "done" /\ req[r].op = "status" /\ req[r].http = 200
     /\ req[r].substatus = "expired"
     /\ subscriptions[req[r].sub].status = "expired"
     /\ subscriptions[req[r].sub].expires_at < now
     /\ profiles[req[r].provider].provider_tier = "basic"
     /\ profiles[req[r].provider].phone_visible = "true"

\* C10: the status of a subscription row only ever changes from active to
\* expired or from active to cancelled; rows are never removed.
C10_StatusTerminal ==
  [][/\ Len(subscriptions') >= Len(subscriptions)
     /\ \A i \in DOMAIN subscriptions :
           subscriptions'[i].status # subscriptions[i].status
           => /\ subscriptions[i].status = "active"
              /\ subscriptions'[i].status \in {"expired", "cancelled"}]_vars

\* C12: a provider whose tier is specialist has at least one subscription row
\* with status active, except while a CancelSubscription or a lazy expiry of
\* that provider has changed the row and has its tier write still to do.
C12_SpecialistHasActiveSubscription ==
  \A p \in Users :
     (/\ profiles[p].provider_tier = "specialist"
      /\ \A r \in Slots : ~(req[r].provider = p /\ req[r].pc \in {"gs_tier", "cn_tier"}))
     => \E i \in SubsOf(p) : subscriptions[i].status = "active"


\* ---- provider representations ----

\* the phone a viewer is entitled to see of provider p
PhoneFor(p, viewer) ==
  IF \/ viewer = p
     \/ profiles[p].provider_tier = "basic"
     \/ profiles[p].phone_visible = "true"
  THEN profiles[p].phone
  ELSE "null"

C14_RedactionOnEveryPath ==
  \A r \in Slots :
     req[r].pc = "done" =>
       \A s \in req[r].shown :
          (/\ profiles[s.provider].provider_tier = "specialist"
           /\ profiles[s.provider].phone_visible = "false"
           /\ s.phone # "null")
          => req[r].user = s.provider


\* ---- tier frame ----

C15_CheckBanFailsOpen ==
  /\ \A r \in Slots :
        (req[r].pc = "done" /\ req[r].op = "check" /\ "checkBan" \in req[r].logged)
        => ~req[r].banned /\ req[r].banType = "none"
  /\ \A u \in Users, m \in writeMethods :
        LET q == [Idle EXCEPT !.pc = "gate", !.op = "other", !.method = m,
                              !.cred = u, !.user = u]
        IN /\ banCheckMiddleware(q, FALSE).pc = "auth"
           /\ "checkBan" \in banCheckMiddleware(q, FALSE).logged

C15_Witness ==
  \E r \in Slots :
     /\ req[r].pc = "done" /\ req[r].op = "check"
     /\ "checkBan" \in req[r].logged
     /\ ~req[r].banned
     /\ ActiveBanRows(req[r].user, now) # {}
     /\ req[r].user = Canceller

\* C16: a call that has reached the insert of its ban row either inserts the
\* row and returns the ban, or, when the insert fails, ends with 500, returns
\* no strike result and leaves the ban table as it was.
C16_BanInsertFailsClosed ==
  [][\A r \in Slots :
       (req[r].pc = "ban_insert" /\ req'[r].pc # "ban_insert") =>
         \/ /\ req'[r].http = 200 /\ req'[r].banned
            /\ AppendsOneBan
            /\ InsertedBan.user_id = req[r].user
            /\ InsertedBan.ban_type = req'[r].banType
         \/ /\ req'[r].pc = "done" /\ req'[r].http = 500 /\ ~req'[r].banned
            /\ "handleBanThreshold" \in req'[r].logged
            /\ user_bans' = user_bans]_vars

C16_Witness ==
  \E r \in Slots :
     /\ req[r].pc = "done" /\ req[r].op = "cancel" /\ req[r].http = 500
     /\ req[r].count >= CANCEL_THRESHOLD
     /\ ~req[r].banned
     /\ BansOf(req[r].user) = {}

\* C17: a failed insert of the cancellation record is logged and the call goes
\* on to count the window; a call whose record insert failed ends with its
\* strike result and 200, unless the insert of a ban row failed as well.
C17_LoggingBestEffort ==
  [][\A r \in Slots :
       /\ (req[r].pc = "log_insert" /\ req'[r].pc # "log_insert") =>
             /\ req'[r].pc = "count"
             /\ (cancellation_log' = cancellation_log
                 <=> "logCancellation" \in req'[r].logged)
       /\ (req'[r].pc = "done" /\ "logCancellation" \in req'[r].logged) =>
             \/ req'[r].http = 200
             \/ "handleBanThreshold" \in req'[r].logged]_vars

C17_Witness ==
  \E r \in Slots :
     /\ req[r].pc = "done" /\ req[r].op = "cancel" /\ req[r].http = 200
     /\ "logCancellation" \in req[r].logged
     /\ req[r].count = WindowCount(req[r].user)
     /\ LoggedBy(req[r].user) > 0

\* ---- storage failures in the subscription lifecycle ----

\* C18: no operation of the subscription manager goes on after a storage
\* error: a tier write that leaves a specialist tier in place after the
\* subscription row was changed, and a getStatus read that returns nothing
\* although the provider has a row, both end the operation with 500.
C18_SubscriptionFailsClosed ==
  [][\A r \in Slots :
       /\ (/\ req[r].pc \in {"gs_tier", "cn_tier"}
           /\ req'[r].pc # req[r].pc
           /\ profiles[req[r].provider].provider_tier = "specialist"
           /\ profiles' = profiles)
          => req'[r].pc = "done" /\ req'[r].http = 500
       /\ (/\ req[r].pc = "gs_read"
           /\ req'[r].pc # "gs_read"
           /\ LatestSub(req[r].provider) # 0
           /\ req'[r].sub = 0)
          => req'[r].pc = "done" /\ req'[r].http = 500]_vars

\* ---- read-only requests ----

\* C19: the gate passes every GET request on unchanged and without a ban
\* lookup, whoever sends it and whatever the ledger holds, so no GET request
\* is answered with the ban rejection.
C19_ReadsBypassGate ==
  /\ \A r \in Slots :
        (req[r].pc = "done" /\ req[r].method = "GET")
        => req[r].http # 403 /\ ~req[r].banned
  /\ \A u \in Users \cup {NoUser}, ok \in BOOLEAN :
        LET q == [Idle EXCEPT !.pc = "gate", !.op = "other", !.method = "GET",
                              !.cred = IF u = NoUser THEN InvalidCred ELSE u,
                              !.user = u]
        IN WriteOnlyGate(q, ok) = [q EXCEPT !.pc = "auth"]

C19_Witness ==
  \E r \in Slots :
     /\ req[r].pc = "done" /\ req[r].method = "GET" /\ req[r].http = 200
     /\ req[r].user \in Users
     /\ checkBan(req[r].user, now, TRUE).banned

\* ---- concurrent cancellations ----

\* C20: a call that has decided to escalate inserts the row computed from the
\* counts it read, whatever rows other calls have inserted since those reads;
\* so two concurrent calls of one user that read the same window count and the
\* same number of temporary bans both insert a ban row.
C20_EscalationWithoutRecheck ==
  [][\A r \in Slots :
       (req[r].pc = "ban_insert" /\ req'[r].pc # "ban_insert") =>
          /\ AppendsOneBan
          /\ InsertedBan = NewBan(req[r].user, req[r].count, req[r].temps + 1, now)]_vars

C20_Witness ==
  /\ LoggedBy(Canceller) = CANCEL_THRESHOLD
  /\ Cardinality(BansOf(Canceller)) = 2
  /\ \A r \in Slots :
        /\ req[r].pc = "done" /\ req[r].op = "cancel" /\ req[r].user = Canceller
        /\ req[r].count = CANCEL_THRESHOLD /\ req[r].temps = 0
        /\ req[r].banned /\ req[r].banType = "temporary"

\* ---- expiry of temporary bans ----

\* every ban row of u is temporary and over at the current time
AllBansOver(u) ==
  \A i \in BansOf(u) :
     user_bans[i].ban_type = "temporary" /\ user_bans[i].expires_at <= now

\* C21: for a user whose ban rows are all temporary and over at the current
\* time, expiry instant included, checkBan computed from the stored rows and
\* the current time reports not banned, the ban check applied to a write
\* request of that user passes it on, and every write request of that user
\* leaves the gate for the next middleware.
C21_ExpiredBanUnblocks ==
  [][\A u \in Users :
       AllBansOver(u) =>
         /\ ~checkBan(u, now, TRUE).banned
         /\ \A m \in writeMethods :
               WriteOnlyGate([Idle EXCEPT !.pc = "gate", !.op = "other", !.method = m,
                                          !.cred = u, !.user = u], TRUE).pc = "auth"
         /\ \A r \in Slots :
               (/\ req[r].pc = "gate" /\ req'[r].pc # "gate"
                /\ req[r].cred = u /\ req[r].method \in writeMethods)
               => req'[r].pc = "auth"]_vars

C21_Witness ==
  \E r \in Slots :
     /\ req[r].pc = "done" /\ req[r].method \in writeMethods /\ req[r].http = 200
     /\ req[r].user \in Users
     /\ AllBansOver(req[r].user)
     /\ \E i \in BansOf(req[r].user) : user_bans[i].expires_at = now

\* ---- operations of the subscription manager ----

\* the provider's rows with status active whose expiry has not passed
LiveSubs(p) ==
  {i \in SubsOf(p) : subscriptions[i].status = "active" /\ subscriptions[i].expires_at >= now}

\* C22: UpgradeTier by another user is rejected (403); by the provider it goes
\* on to the tier write exactly when a row of the provider is active and
\* unexpired at the time of the read, whatever the tier, and is rejected (402)
\* otherwise; the tier write sets specialist and answers 200; a rejection
\* leaves every profile as it was.
C22_UpgradeTier ==
  [][\A r \in Slots :
       /\ (req[r].pc = "idle" /\ req'[r].op = "upgrade") =>
             /\ profiles' = profiles
             /\ IF req'[r].user # req'[r].provider
                THEN req'[r].pc = "done" /\ req'[r].http = 403
                ELSE req'[r].pc = "ut_read"
       /\ (req[r].pc = "ut_read" /\ req'[r] # req[r]) =>
             /\ profiles' = profiles
             /\ IF LiveSubs(req[r].provider) # {}
                THEN req'[r].pc = "ut_update"
                ELSE req'[r].pc = "done" /\ req'[r].http = 402
       /\ (req[r].pc = "ut_update" /\ req'[r] # req[r]) =>
             /\ req'[r].pc = "done" /\ req'[r].http = 200
             /\ profiles'[req[r].provider].provider_tier = "specialist"]_vars

\* C23: CancelSubscription by the provider that reads the provider's most
\* recent row active and unexpired sets that row, and no other, to cancelled,
\* then sets the provider's tier to basic and returns the row as cancelled
\* with 200; a GetStatus that reads while the cancelled row is the most recent
\* one returns it with status cancelled.
C23_CancelSubscription ==
  [][\A r \in Slots :
       LET p == req[r].provider
       IN /\ (/\ req[r].pc = "gs_read" /\ req'[r] # req[r] /\ req[r].op = "cancelsub"
              /\ SubsOf(p) # {}
              /\ subscriptions[Newest(p)].status = "active"
              /\ subscriptions[Newest(p)].expires_at >= now)
             => req'[r].pc = "cn_update" /\ req'[r].sub = Newest(p)
          /\ (req[r].pc = "cn_update" /\ req'[r] # req[r])
             => /\ req'[r].pc = "cn_tier" /\ req'[r].sub = req[r].sub
                /\ DOMAIN subscriptions' = DOMAIN subscriptions
                /\ subscriptions'[req[r].sub] =
                     [subscriptions[req[r].sub] EXCEPT !.status = "cancelled"]
                /\ \A i \in DOMAIN subscriptions :
                      i # req[r].sub => subscriptions'[i] = subscriptions[i]
          /\ (req[r].pc = "cn_tier" /\ req'[r] # req[r])
             => /\ profiles'[p].provider_tier = "basic"
                /\ req'[r].pc = "done" /\ req'[r].http = 200
                /\ req'[r].sub = req[r].sub /\ req'[r].substatus = "cancelled"
          /\ (/\ req[r].pc = "gs_read" /\ req'[r] # req[r] /\ req[r].op = "status"
              /\ SubsOf(p) # {}
              /\ subscriptions[Newest(p)].status = "cancelled")
             => /\ req'[r].pc = "done" /\ req'[r].http = 200
                /\ req'[r].sub = Newest(p) /\ req'[r].substatus = "cancelled"]_vars

C23_Witness ==
  \E r \in Slots, q \in Slots :
     /\ req[q].pc = "done" /\ req[q].op = "upgrade" /\ req[q].http = 200
     /\ req[r].pc = "done" /\ req[r].op = "status" /\ req[r].http = 200
     /\ req[r].provider = req[q].provider
     /\ req[r].substatus = "cancelled"
     /\ req[r].sub = Newest(req[r].provider)
     /\ subscriptions[req[r].sub].expires_at >= now
     /\ profiles[req[r].provider].provider_tier = "basic"

\* C24: CreateSubscription is rejected without an insert for another caller
\* (403), for a target that is not a provider (403), when a row of the
\* provider is active and unexpired (409), and for a plan outside the plan
\* table (400); otherwise, and only with no active unexpired row of the
\* provider in the table, it appends exactly one row, active, started now,
\* expiring after the plan's days, with the plan's amount.
C24_CreateSubscription ==
  [][\A r \in Slots :
       LET p == req[r].provider
       IN /\ (req[r].pc = "idle" /\ req'[r].op = "create") =>
                /\ subscriptions' = subscriptions
                /\ IF req'[r].user # req'[r].provider
                   THEN req'[r].pc = "done" /\ req'[r].http = 403
                   ELSE req'[r].pc = "cs_profile"
          /\ (req[r].pc = "cs_profile" /\ req'[r] # req[r]) =>
                /\ subscriptions' = subscriptions
                /\ IF profiles[p].user_type # "provider"
                   THEN req'[r].pc = "done" /\ req'[r].http = 403
                   ELSE req'[r].pc = "cs_existing"
          /\ (req[r].pc = "cs_existing" /\ req'[r] # req[r]) =>
                /\ subscriptions' = subscriptions
                /\ IF LiveSubs(p) # {}
                   THEN req'[r].pc = "done" /\ req'[r].http = 409
                   ELSE IF req[r].plan \notin PlanTypes
                   THEN req'[r].pc = "done" /\ req'[r].http = 400
                   ELSE req'[r].pc = "cs_insert"
          /\ (req[r].pc = "cs_insert" /\ req'[r] # req[r]) =>
                /\ LiveSubs(p) = {}
                /\ subscriptions' =
                     Append(subscriptions,
                            [provider_id |-> p, plan_type |-> req[r].plan,
                             status |-> "active", started_at |-> now,
                             expires_at |-> now + PlanDays(req[r].plan),
                             amount |-> PlanAmount(req[r].plan)])
                /\ req'[r].pc = "done" /\ req'[r].http = 201]_vars

\* ---- append-only ledger ----

\* C25: in every step the ban table keeps all its rows, in place and
\* unchanged, and at most gains rows at the end, and every cancellation record
\* stays in the log with at least as many copies as before.
C25_AppendOnlyLedger ==
  [][/\ Len(user_bans') >= Len(user_bans)
     /\ SubSeq(user_bans', 1, Len(user_bans)) = user_bans
     /\ \A c \in BagToSet(cancellation_log) :
           CopiesIn(c, cancellation_log') >= CopiesIn(c, cancellation_log)]_vars

C25_Witness ==
  /\ Cardinality(BansOf(Canceller)) >= 2
  /\ LoggedBy(Canceller) >= CANCEL_THRESHOLD + 1
  /\ user_bans[1] = StrangerBans[1]
  /\ now > StrangerBans[1].expires_at
  /\ \E r \in Slots : req[r].pc = "done" /\ req[r].op = "check" /\ req[r].user = "u2"

\* ---- bookings ----

\* the cancellation records of booking b
RecordsOf(b) ==
  CountRows(cancellation_log, {c \in BagToSet(cancellation_log) : c.booking_id = b})

\* C26: no booking of the bookings table ever has more than one cancellation
\* record, also while cancel requests for the same booking run concurrently.
C26_OneRecordPerBooking ==
  \A b \in BookingIds : RecordsOf(b) <= 1

\* C27: every review row refers to a booking whose status is completed and
\* whose client is the reviewer, in every state, so a booking that has a
\* review never leaves the completed status.
C27_ReviewOfCompletedBooking ==
  \A rv \in reviews :
     /\ bookings[rv.booking_id].status = "completed"
     /\ bookings[rv.booking_id].client_id = rv.reviewer_id

\* C28: a socket joins room call_{A}_{B} only if its user is A or B and, at
\* the time of the join, at least one of A and B is a provider whose tier is
\* specialist.
C28_JoinAdmission ==
  [][\A r \in Slots :
       (~req[r].joined /\ req'[r].joined) =>
          /\ req[r].user \in {req'[r].room[1], req'[r].room[2]}
          /\ \E p \in {req'[r].room[1], req'[r].room[2]} :
                /\ profiles[p].user_type = "provider"
                /\ profiles[p].provider_tier = "specialist"]_vars

\* C29: on a protected write route the ban check runs after authMiddleware
\* has set req.user: a write request with a valid credential reaches the ban
\* check with req.user resolved to the caller, never without a req.user.
C29_GateAfterAuth ==
  [][\A r \in GateSlots :
       (/\ req[r].pc = "gate"
        /\ req'[r] # req[r]
        /\ req[r].method \in writeMethods
        /\ req[r].cred \in Users)
       => req[r].user = req[r].cred]_vars

\* C30: every RecordCancellation call that counts 3 or more records of the
\* trailing 30 days goes on to escalation, whatever bans the user already has,
\* and a call in escalation ends only by inserting one new ban row of the user
\* and answering banned; so the first cancellation after a temporary ban is
\* over, with the earlier records still in the window, issues the next ban.
C30_EveryCountAtThresholdEscalates ==
  /\ [][\A r \in Slots :
          (/\ req[r].pc = "count" /\ req'[r] # req[r]
           /\ WindowCount(req[r].user) >= CANCEL_THRESHOLD)
          => /\ req'[r].pc = "temps"
             /\ req'[r].count = WindowCount(req[r].user)]_vars
  /\ [][\A r \in Slots :
          (req[r].pc \in {"temps", "ban_insert"} /\ req'[r] # req[r])
          => /\ req'[r].pc \in {"ban_insert", "done"}
             /\ req'[r].pc = "done"
                => /\ AppendsOneBan
                   /\ InsertedBan.user_id = req[r].user
                   /\ req'[r].banned]_vars

C30_Witness ==
  \E r \in Slots :
     /\ req[r].pc = "done" /\ req[r].op = "cancel" /\ req[r].user = Canceller
     /\ req[r].count = CANCEL_THRESHOLD + 1 /\ req[r].temps = 1
     /\ req[r].banned /\ req[r].banType = "temporary" /\ req[r].expires = now + TEMP_BAN_DAYS
     /\ Cardinality(BansOf(Canceller)) = 2
     /\ \E i \in BansOf(Canceller) :
           /\ user_bans[i].ban_type = "temporary"
           /\ user_bans[i].expires_at <= now
           /\ CountRows(cancellation_log,
                        {c \in InWindow(Canceller) :
                           c.cancelled_at + TEMP_BAN_DAYS = user_bans[i].expires_at})
              = CANCEL_THRESHOLD
     /\ CountRows(cancellation_log,
                  {c \in InWindow(Canceller) : c.cancelled_at = now}) = 1

\* ---- escalation history ----

TemporariesOf(u) == {i \in BansOf(u) : user_bans[i].ban_type = "temporary"}

\* C31: with one request at a time and storage reads that succeed, no user
\* ever has more than 2 temporary ban rows: an escalation inserts a temporary
\* row while the user has fewer than 2 of them and a permanent row afterwards.
C31_AtMostTwoTemporaryBans ==
  /\ [](\A u \in Users : Cardinality(TemporariesOf(u)) <= 2)
  /\ [][\A r \in GateSlots :
          (req[r].pc = "ban_insert" /\ req'[r] # req[r])
          => /\ AppendsOneBan
             /\ InsertedBan.user_id = req[r].user
             /\ InsertedBan.ban_type =
                  IF Cardinality(TemporariesOf(req[r].user)) < 2
                  THEN "temporary" ELSE "permanent"]_vars

C31_Witness ==
  /\ Cardinality(TemporariesOf(Canceller)) = 2
  /\ Cardinality(BansOf(Canceller)) = 3
  /\ \A i \in TemporariesOf(Canceller) :
        \A j \in BansOf(Canceller) \ TemporariesOf(Canceller) : i < j
  /\ \A r \in GateSlots : req[r].pc = "idle"

\* C32: in every state, under every interleaving of concurrent cancellations,
\* each permanent ban row of a user comes after at least 2 temporary ban rows
\* of that user in the order of insertion.
C32_PermanentAfterTwoTemporaries ==
  \A i \in DOMAIN user_bans :
     user_bans[i].ban_type = "permanent"
     => Cardinality({j \in TemporariesOf(user_bans[i].user_id) : j < i}) >= 2

\* two concurrent calls on the third cancellation each inserted a temporary
\* ban, and the fourth cancellation inserted the permanent one
C32_Witness ==
  /\ HasPermanent(Canceller)
  /\ LoggedBy(Canceller) = CANCEL_THRESHOLD + 1
  /\ \E r \in Slots : /\ req[r].pc = "done" /\ req[r].op = "cancel"
                      /\ req[r].banType = "permanent" /\ req[r].temps = 2

\* C33: the test for an active unexpired subscription that CreateSubscription
\* and UpgradeTier use is true exactly when the provider has at least one row
\* with status active and expiry not before now, for any number of such rows:
\* CreateSubscription then rejects (409) and UpgradeTier goes on to the tier
\* write.
C33_ExistsForAnyNumberOfRows ==
  /\ [](\A p \in Users :
          (Single(ActiveSubRows(p, now)) # 0) <=> (LiveSubs(p) # {}))
  /\ [][\A r \in Slots :
          /\ (req[r].pc = "cs_existing" /\ req'[r] # req[r] /\ LiveSubs(req[r].provider) # {})
             => (req'[r].pc = "done" /\ req'[r].http = 409)
          /\ (req[r].pc = "ut_read" /\ req'[r] # req[r] /\ LiveSubs(req[r].provider) # {})
             => req'[r].pc = "ut_update"]_vars

\* ---- failed counting reads ----

\* C34: when the read that counts the user's cancellations of the window
\* fails, RecordCancellation takes the count as 0: the call ends with a
\* not-banned warning carrying strikeCount 0 and inserts no ban row, whatever
\* the number of records the user has in the window.
C34_FailedCountIsZero ==
  /\ [](\A u \in Users : getCancellationCount(u, now, FALSE) = 0)
  /\ [][\A r \in Slots :
          (req[r].pc = "count" /\ req'[r] # req[r]) =>
             \/ req'[r].count = WindowCount(req[r].user)
             \/ /\ req'[r].count = 0
                /\ req'[r].pc = "done" /\ req'[r].http = 200 /\ ~req'[r].banned
                /\ "getCancellationCount" \in req'[r].logged
                /\ user_bans' = user_bans]_vars

C34_Witness ==
  \E r \in Slots :
     /\ req[r].pc = "done" /\ req[r].op = "cancel" /\ req[r].http = 200
     /\ "getCancellationCount" \in req[r].logged
     /\ req[r].count = 0 /\ ~req[r].banned
     /\ WindowCount(req[r].user) >= CANCEL_THRESHOLD
     /\ BansOf(req[r].user) = {}

\* C35: when the read that counts the user's temporary bans fails during
\* escalation, escalation goes on as if the user had none: the call is not
\* failed, and its insert is a temporary ban answered as banned/temporary,
\* also for a user who has 2 or more temporary ban rows.
C35_FailedTempCountIsZero ==
  /\ [](\A u \in Users : existingTempBans(u, FALSE) = 0)
  /\ [][\A r \in Slots :
          /\ (req[r].pc = "temps" /\ req'[r] # req[r]) =>
                /\ req'[r].pc = "ban_insert"
                /\ req'[r].temps \in {Cardinality(TemporariesOf(req[r].user)), 0}
                /\ user_bans' = user_bans
          /\ (req[r].pc = "ban_insert" /\ req[r].temps = 0 /\ user_bans' # user_bans) =>
                /\ AppendsOneBan
                /\ InsertedBan = NewBan(req[r].user, req[r].count, 1, now)
                /\ InsertedBan.ban_type = "temporary"
                /\ req'[r].pc = "done" /\ req'[r].http = 200
                /\ req'[r].banned /\ req'[r].banType = "temporary"]_vars

C35_Witness ==
  \E r \in Slots :
     /\ req[r].pc = "done" /\ req[r].op = "cancel" /\ req[r].http = 200
     /\ req[r].temps = 0 /\ req[r].banned /\ req[r].banType = "temporary"
     /\ Cardinality(TemporariesOf(req[r].user)) = 3
     /\ ~HasPermanent(req[r].user)

\* ---- rejected cancellations of a subscription ----

\* the most recent row of the provider is active and past its expiry
LatestOverdue(p) ==
  /\ SubsOf(p) # {}
  /\ subscriptions[Newest(p)].status = "active"
  /\ subscriptions[Newest(p)].expires_at < now

\* C36: CancelSubscription that reads the provider's most recent row active
\* but past its expiry marks that row, and no other, expired, sets the
\* provider's tier to basic and rejects (404); a call rejected for any other
\* reason (not the provider, no row, most recent row expired or cancelled)
\* ends at its rejection without a write to subscriptions or profiles.
C36_RejectedCancelSideEffect ==
  [][\A r \in Slots :
       /\ (req[r].pc = "idle" /\ req'[r].op = "cancelsub") =>
             /\ subStore' = subStore
             /\ IF req'[r].user # req'[r].provider
                THEN req'[r].pc = "done" /\ req'[r].http = 403
                ELSE req'[r].pc = "gs_read"
       /\ (req[r].op = "cancelsub" /\ req[r].pc = "gs_read" /\ req'[r] # req[r]) =>
             /\ subStore' = subStore
             /\ IF LatestOverdue(req[r].provider)
                THEN req'[r].pc = "gs_expire" /\ req'[r].sub = Newest(req[r].provider)
                ELSE IF SubsOf(req[r].provider) = {}
                        \/ subscriptions[Newest(req[r].provider)].status # "active"
                THEN req'[r].pc = "done" /\ req'[r].http = 404
                ELSE req'[r].pc = "cn_update"
       /\ (req[r].op = "cancelsub" /\ req[r].pc = "gs_expire" /\ req'[r] # req[r]) =>
             /\ subscriptions' = [subscriptions EXCEPT ![req[r].sub].status = "expired"]
             /\ profiles' = profiles
             /\ req'[r].pc = "gs_tier"
       /\ (req[r].op = "cancelsub" /\ req[r].pc = "gs_tier" /\ req'[r] # req[r]) =>
             /\ subscriptions' = subscriptions
             /\ profiles'[req[r].provider].provider_tier = "basic"
             /\ \A u \in Users \ {req[r].provider} : profiles'[u] = profiles[u]
             /\ req'[r].pc = "done" /\ req'[r].http = 404]_vars

C36_Witness ==
  \E r \in Slots :
     /\ req[r].pc = "done" /\ req[r].op = "cancelsub" /\ req[r].http = 404
     /\ req[r].sub # 0 /\ req[r].substatus = "expired"
     /\ subscriptions[req[r].sub].status = "expired"
     /\ subscriptions[req[r].sub].expires_at < now
     /\ profiles[req[r].provider].provider_tier = "basic"

\* ---- the phone-visible flag under tier writes ----

\* C37: a step that changes a provider's tier resets the phone-visible flag,
\* to false on a change to specialist, after which the phone is hidden from
\* other viewers, and to true on a change to basic, after which it is shown;
\* a tier write that leaves the tier value as it was leaves the flag as it was.
C37_TierChangeResetsFlag ==
  [][\A u \in Users :
       (profiles[u].user_type = "provider" /\ profiles'[u].user_type = "provider") =>
          IF profiles'[u].provider_tier # profiles[u].provider_tier
          THEN IF profiles'[u].provider_tier = "specialist"
               THEN /\ profiles'[u].phone_visible = "false"
                    /\ sanitizeProvider(profiles'[u]).phone = "null"
               ELSE /\ profiles'[u].phone_visible = "true"
                    /\ sanitizeProvider(profiles'[u]).phone = profiles[u].phone
          ELSE profiles'[u] = profiles[u]]_vars

\* an upgrade of a basic provider has hidden the phone, and an upgrade of a
\* specialist who shows the phone has left it shown
C37_Witness ==
  \E r \in Slots :
     /\ req[r].pc = "done" /\ req[r].op = "upgrade" /\ req[r].http = 200
     /\ profiles[req[r].provider].user_type = "provider"
     /\ profiles[req[r].provider].provider_tier = "specialist"
     /\ profiles[req[r].provider].phone_visible = "false"
     /\ profiles[req[r].provider].phone = "tel"
     /\ sanitizeProvider(profiles[req[r].provider]).phone = "null"

\* ---- the booking status machine ----

StatusTransitions ==
  {<<"pending", "confirmed">>, <<"confirmed", "completed">>,
   <<"in_progress", "completed">>, <<"pending", "cancelled">>,
   <<"confirmed", "cancelled">>, <<"in_progress", "cancelled">>}

\* C38: the status of a booking changes only along pending -> confirmed,
\* confirmed or in_progress -> completed, and pending, confirmed or
\* in_progress -> cancelled, so completed and cancelled are terminal; every
\* change is made by a request of the booking's client or provider, and a
\* change to confirmed by a request of its provider.
C38_BookingStatusMachine ==
  [][\A b \in BookingIds :
       bookings'[b].status # bookings[b].status =>
          /\ <<bookings[b].status, bookings'[b].status>> \in StatusTransitions
          /\ \E r \in Slots :
                /\ req[r].pc \in {"ub_update", "bk_update"} /\ req'[r] # req[r]
                /\ req[r].booking = b
                /\ req[r].user \in {bookings[b].client_id, bookings[b].provider_id}
                /\ bookings'[b].status = "confirmed"
                   => req[r].user = bookings[b].provider_id]_vars
====
